---- MODULE Spec2Model ----
(***************************************************************************)
(* A model of the TLS certificate builder: the PEM framer (parsePEM), the  *)
(* derived certificate fields (extractCertificateInfo), the chain          *)
(* reconstruction (buildCertificateChain), the bundle serializer           *)
(* (generateNginxFormat), the file dispatcher (parseCertificateFile with   *)
(* parseDER and parsePKCS12), the certificate decoder                      *)
(* (safeCertificateFromAsn1), the App handlers that use them, the flow     *)
(* diagram (CertificateFlow), the WASM initialization (initWasm) and the   *)
(* inner joins (innerJoinOn, innerJoinUsing).                              *)
(***************************************************************************)
EXTENDS Integers, Sequences, FiniteSets, TLC

VARIABLES
  certificates,   \* App state: the certificate wrappers held (App.jsx:14)
  privateKeys,    \* App state: the private key records held (App.jsx:15)
  error,          \* App state: the error shown, or NoValue (App.jsx:18)
  chains,         \* handleDownloadChain: the result of buildCertificateChain
  exported,       \* handleDownloadChain: what is passed to generateNginxFormat
  pc,             \* position of the operation being run
  cert,           \* extractCertificateInfo: its argument
  info,           \* extractCertificateInfo: its result
  data,           \* parsePEM: its argument, the text of the file
  lines,          \* parsePEM: data.split('\n') (part_001:519)
  parsed,         \* parsePEM: the { certificates, privateKeys } it returned
  pemLogged,      \* parsePEM: whether console.error('Error parsing PEM') ran
  bundle,         \* generateNginxFormat: its arguments (chain, privateKey)
  output,         \* generateNginxFormat: the texts it returned
  file,           \* parseCertificateFile: the file given
  password,       \* parseCertificateFile: the password given, or NoValue
  fileResult,     \* parseCertificateFile: how its promise settled
  pendingFile,    \* App state: the file awaiting a password (App.jsx:16)
  showPasswordModal, \* App state: whether the modal is rendered (App.jsx:17)
  reported,       \* App history: files whose parse reported needsPassword
  offered,        \* App history: files shown in the modal after a handler
  asn1,           \* safeCertificateFromAsn1: the ASN.1 tree given
  record,         \* safeCertificateFromAsn1: what the decoders gave
  wasmInitialized, \* wasmWrapper.js:15, the module-level flag
  initCalls,      \* initWasm: how many times init(...) has been invoked
  initSucceeded,  \* initWasm: whether an invocation of init has resolved
  lateInit,       \* initWasm: whether init was invoked after it had resolved
  wasmEnv,        \* initWasm: "node" or "browser" (wasmWrapper.js:23)
  caller,         \* initWasm: where each caller of initWasm stands
  joinArgs,       \* dataJoin.js: the arguments (left, right, keys)
  joinResult,     \* dataJoin.js: what innerJoinUsing and innerJoinOn returned
  nodes,          \* CertificateFlow: the state kept by useNodesState
  tasks,          \* App: the processFile calls in flight
  walk            \* buildCertificateChain: the locals of the walk in progress

appVars == <<certificates, privateKeys, error, chains, exported>>
infoVars == <<cert, info>>
pemVars == <<data, lines, parsed, pemLogged>>

nginxVars == <<bundle, output>>
fileVars == <<file, password, fileResult>>
uiVars == <<pendingFile, showPasswordModal, reported, offered>>
asn1Vars == <<asn1, record>>
wasmVars == <<wasmInitialized, initCalls, initSucceeded, lateInit, wasmEnv, caller>>
joinVars == <<joinArgs, joinResult>>
flowVars == <<nodes>>
taskVars == <<tasks, walk>>
lateVars == <<wasmVars, joinVars, flowVars, taskVars>>
restVars == <<nginxVars, fileVars, uiVars, asn1Vars, lateVars>>

vars == <<appVars, infoVars, pemVars, restVars, pc>>

NoValue == "null"

\* ------------------------------------------------------------------ bounds
\* Longest list of certificates held by the App.
MaxCerts == 3
\* Longest distinguished name (attributes) given to extractCertificateInfo.
MaxAttrs == 2
\* Most lines in a text given to parsePEM.
MaxLines == 5

\* The parts of the state an operation under study does not use.
AppIdle ==
  /\ certificates = <<>>
  /\ privateKeys = <<>>
  /\ error = NoValue
  /\ chains = <<>>
  /\ exported = <<>>

InfoIdle == cert = <<>> /\ info = <<>>

PemIdle == data = <<>> /\ lines = <<>> /\ parsed = <<>> /\ pemLogged = FALSE

NginxIdle == bundle = <<>> /\ output = <<>>

FileIdle == file = <<>> /\ password = NoValue /\ fileResult = <<>>

UiIdle ==
  /\ pendingFile = <<>>
  /\ showPasswordModal = FALSE
  /\ reported = {}
  /\ offered = {}

Asn1Idle == asn1 = <<>> /\ record = <<>>

WasmIdle ==
  /\ wasmInitialized = FALSE
  /\ initCalls = 0
  /\ initSucceeded = FALSE
  /\ lateInit = FALSE
  /\ wasmEnv = NoValue
  /\ caller = <<>>

JoinIdle == joinArgs = <<>> /\ joinResult = <<>>

FlowIdle == nodes = <<>>

TaskIdle == tasks = <<>> /\ walk = <<>>

LateIdle == WasmIdle /\ JoinIdle /\ FlowIdle /\ TaskIdle

RestIdle == NginxIdle /\ FileIdle /\ UiIdle /\ Asn1Idle /\ LateIdle

\* ------------------------------------------------------------- small helpers
BoundedSeq(S, n) == UNION {[1..k -> S] : k \in 0..n}

Range(s) == {s[i] : i \in 1..Len(s)}

Min(S) == CHOOSE x \in S : \A y \in S : x <= y

\* ------------------------------------------------------ extractCertificateInfo
\* An attribute of a distinguished name, as node-forge gives it: the key that
\* `attr.shortName || attr.name` evaluates to, and the value.
Attr(k, v) == [shortName |-> k, value |-> v]

\* acc[key] = value on a JS object: an existing key keeps its position and
\* takes the new value, a new key is added last.  The object is the sequence
\* of its <<key, value>> pairs in property order.
RECURSIVE ObjPut(_, _, _)
ObjPut(obj, k, v) ==
  IF obj = <<>> THEN << <<k, v>> >>
  ELSE IF Head(obj)[1] = k THEN << <<k, v>> >> \o Tail(obj)
  ELSE <<Head(obj)>> \o ObjPut(Tail(obj), k, v)

\* attributes.reduce((acc, attr) => { acc[attr.shortName] = attr.value }, {})
RECURSIVE ReduceAttrs(_, _)
ReduceAttrs(attrs, acc) ==
  IF attrs = <<>> THEN acc
  ELSE ReduceAttrs(Tail(attrs), ObjPut(acc, Head(attrs).shortName, Head(attrs).value))

ObjHas(obj, k) == \E i \in 1..Len(obj) : obj[i][1] = k

ObjGet(obj, k) == obj[CHOOSE i \in 1..Len(obj) : obj[i][1] = k][2]

\* obj.CN || 'Unknown': a missing or empty CN gives the sentinel.
CommonNameOf(obj) ==
  IF ObjHas(obj, "CN") /\ ObjGet(obj, "CN") # "" THEN ObjGet(obj, "CN") ELSE "Unknown"

\* JSON.stringify(a) === JSON.stringify(b) for objects with string values:
\* the same keys with the same values in the same property order.
JsonEqual(a, b) == a = b

extractCertificateInfo(c) ==
  LET subject == ReduceAttrs(c.subject, <<>>)
      issuer  == ReduceAttrs(c.issuer, <<>>)
  IN [ subject           |-> subject,
       issuer            |-> issuer,
       subjectCommonName |-> CommonNameOf(subject),
       issuerCommonName  |-> CommonNameOf(issuer),
       isCA              |-> \E i \in 1..Len(c.extensions) :
                                /\ c.extensions[i].name = "basicConstraints"
                                /\ c.extensions[i].cA = TRUE,
       isSelfSigned      |-> JsonEqual(subject, issuer) ]

\* -------------------------------------------------------- buildCertificateChain
\* certMap: index -> { cert, info, wrapper }; the entries are told apart by
\* their index (the visited Set holds the entry objects themselves).
certMapInfo(certs) == [i \in 1..Len(certs) |-> extractCertificateInfo(certs[i].data)]

\* Mutants of the leaf filter: every record a candidate; only non-CA records.
RECURSIVE LeavesFrom_Everything(_, _)
LeavesFrom_Everything(infos, i) ==
  IF i > Len(infos) THEN <<>> ELSE <<i>> \o LeavesFrom_Everything(infos, i + 1)

RECURSIVE LeavesFrom_NonCAOnly(_, _)
LeavesFrom_NonCAOnly(infos, i) ==
  IF i > Len(infos) THEN <<>>
  ELSE (IF ~infos[i].isCA THEN <<i>> ELSE <<>>) \o LeavesFrom_NonCAOnly(infos, i + 1)

\* Mutant of the leaf filter: non-CA and self-signed at once.
RECURSIVE LeavesFrom_Both(_, _)
LeavesFrom_Both(infos, i) ==
  IF i > Len(infos) THEN <<>>
  ELSE (IF ~infos[i].isCA /\ infos[i].isSelfSigned THEN <<i>> ELSE <<>>)
       \o LeavesFrom_Both(infos, i + 1)

\* The indices, in Map order, of the leaf candidates.
RECURSIVE LeavesFrom(_, _)
LeavesFrom(infos, i) ==
  IF i > Len(infos) THEN <<>>
  ELSE (IF ~infos[i].isCA \/ infos[i].isSelfSigned THEN <<i>> ELSE <<>>)
       \o LeavesFrom(infos, i + 1)

\* Mutant of the issuer scan: only the entries after the current one are scanned.
FindIssuer_ForwardOnly(infos, current, visited) ==
  LET cands == {j \in 1..Len(infos) :
                  /\ j > current
                  /\ j \notin visited
                  /\ infos[j].subjectCommonName = infos[current].issuerCommonName}
  IN IF cands = {} THEN 0 ELSE Min(cands)

\* The issuer scan: the first entry in Map order that is unvisited and whose
\* subjectCommonName is the current entry's issuerCommonName; 0 when none.
FindIssuer(infos, current, visited) ==
  LET cands == {j \in 1..Len(infos) :
                  /\ j \notin visited
                  /\ infos[j].subjectCommonName = infos[current].issuerCommonName}
  IN IF cands = {} THEN 0 ELSE Min(cands)

\* Mutant of the walk: a self-signed record does not end it.
RECURSIVE WalkChain_PastRoot(_, _, _, _)
WalkChain_PastRoot(infos, current, visited, chainForLeaf) ==
  IF current \in visited THEN chainForLeaf
  ELSE LET v  == visited \cup {current}
           ch == Append(chainForLeaf, current)
           next == FindIssuer(infos, current, v)
       IN IF next = 0 THEN ch ELSE WalkChain_PastRoot(infos, next, v, ch)

\* The while loop of one leaf's walk.
RECURSIVE WalkChain(_, _, _, _)
WalkChain(infos, current, visited, chainForLeaf) ==
  IF current \in visited THEN chainForLeaf
  ELSE LET v  == visited \cup {current}
           ch == Append(chainForLeaf, current)
       IN IF infos[current].isSelfSigned THEN ch
          ELSE LET next == FindIssuer(infos, current, v)
               IN IF next = 0 THEN ch ELSE WalkChain(infos, next, v, ch)

\* The list of chains, each a sequence of certMap indices, leaf first.
buildCertificateChain(certs) ==
  LET infos  == certMapInfo(certs)
      leaves == LeavesFrom(infos, 1)
      walks  == [k \in 1..Len(leaves) |-> WalkChain(infos, leaves[k], {}, <<>>)]
  IN SelectSeq(walks, LAMBDA w : Len(w) > 0)

\* ------------------------------------------------------------ handleDownloadChain
\* The certificates the App may hold when the chain is built.  A certificate
\* is what node-forge parsed: the subject and issuer attributes and the
\* extensions; a wrapper is what parsePEM / parseDER pushed.
ChainNames == {"a", "b", "c"}

MkCert(s, i, ca) ==
  [ subject    |-> <<Attr("CN", s)>>,
    issuer     |-> <<Attr("CN", i)>>,
    extensions |-> IF ca THEN <<[name |-> "basicConstraints", cA |-> TRUE]>> ELSE <<>> ]

\* Every certificate over the three names, and one self-signed CA certificate
\* whose name no other certificate uses.
CertPool ==
  {MkCert(s, i, ca) : s \in ChainNames, i \in ChainNames, ca \in BOOLEAN}
    \cup {MkCert("r", "r", TRUE)}

Wrapper(c) == [type |-> "certificate", data |-> c]

WrapperPool == {Wrapper(c) : c \in CertPool}

\* handleDownloadChain (a click on "Download Nginx Format"): builds the chains
\* from the certificates held; with none it sets the error and stops, else it
\* hands chains[0] and privateKeys[0] to generateNginxFormat.
HandleDownloadChain ==
  /\ pc = "idle"
  /\ LET built == buildCertificateChain(certificates)
     IN /\ chains' = built
        /\ \/ /\ Len(built) = 0
              /\ error' = "No valid certificate chain found"
              /\ exported' = <<>>
           \/ /\ Len(built) > 0
              /\ error' = error
              /\ exported' = << [ chain      |-> built[1],
                                  privateKey |-> IF privateKeys = <<>> THEN <<>>
                                                 ELSE <<privateKeys[1]>> ] >>
  /\ pc' = "done"
  /\ UNCHANGED <<certificates, privateKeys, infoVars, pemVars, restVars>>

ChainInit ==
  /\ certificates \in BoundedSeq(WrapperPool, MaxCerts)
  /\ privateKeys = <<>>
  /\ error = NoValue
  /\ chains = <<>>
  /\ exported = <<>>
  /\ pc = "idle"
  /\ InfoIdle
  /\ PemIdle
  /\ RestIdle

ChainNext == HandleDownloadChain

\* The specification of chain reconstruction: any list of certificates held,
\* then one download.
SpecChain == ChainInit /\ [][ChainNext]_vars

\* ----------------------------------------------------- chain claims: vocabulary
Infos == certMapInfo(certificates)

NCerts == Len(certificates)

\* The records of a chain, in chain order.
ChainRecords(certs, chain) == [k \in 1..Len(chain) |-> certs[chain[k]]]

\* The chains as a set of record sequences.
ChainSet(certs, chs) == {ChainRecords(certs, chs[k]) : k \in 1..Len(chs)}

Permutations3 == {p \in [1..3 -> 1..3] : \A i, j \in 1..3 : p[i] = p[j] => i = j}

\* a, b, c index a leaf, its intermediate and the self-signed root, with three
\* different subject common names (a strict line a -> b -> c).
IsLine(a, b, c) ==
  /\ ~Infos[a].isCA /\ ~Infos[a].isSelfSigned
  /\ Infos[a].issuerCommonName = Infos[b].subjectCommonName
  /\ Infos[b].isCA /\ ~Infos[b].isSelfSigned
  /\ Infos[b].issuerCommonName = Infos[c].subjectCommonName
  /\ Infos[c].isSelfSigned
  /\ Cardinality({Infos[a].subjectCommonName, Infos[b].subjectCommonName,
                  Infos[c].subjectCommonName}) = 3

\* C1 (as claimed): the input [A, B, C], a strict line with C self-signed,
\* gives exactly one chain, [A, B, C].
C1_OneChainForLine ==
  (pc = "done" /\ NCerts = 3 /\ IsLine(1, 2, 3)) => chains = << <<1, 2, 3>> >>

\* C2 (as claimed): whatever the order of leaf, intermediate and root in the
\* input, chains[0] is [leaf, intermediate, root], and it is the chain exported.
C2_FirstChainIsFullChain ==
  (pc = "done" /\ NCerts = 3) =>
    \A p \in Permutations3 :
      IsLine(p[1], p[2], p[3]) =>
        /\ Len(chains) > 0
        /\ chains[1] = <<p[1], p[2], p[3]>>
        /\ exported # <<>>
        /\ exported[1].chain = <<p[1], p[2], p[3]>>

Perms(n) == {p \in [1..n -> 1..n] : \A i, j \in 1..n : p[i] = p[j] => i = j}

Permute(certs, p) == [i \in 1..Len(certs) |-> certs[p[i]]]

SameChainsUnderEveryOrder ==
  \A p \in Perms(NCerts) :
    LET permuted == Permute(certificates, p)
    IN ChainSet(permuted, buildCertificateChain(permuted)) = ChainSet(certificates, chains)

DistinctSubjectCNs ==
  \A i, j \in 1..NCerts :
    i # j => Infos[i].subjectCommonName # Infos[j].subjectCommonName

\* C3 (as claimed): every permutation of every input, records sharing a
\* subjectCommonName included, gives the same set of chains.
C3_OrderIndependent == pc = "done" => SameChainsUnderEveryOrder

\* C3 (amended): when no two records of the input share a subjectCommonName,
\* every permutation of the input gives the same set of chains.
C3_OrderIndependentDistinctCNs ==
  (pc = "done" /\ DistinctSubjectCNs) => SameChainsUnderEveryOrder

\* A three-record line held out of chain order, rebuilt as one three-record chain.
C3_Witness ==
  /\ pc = "done" /\ NCerts = 3 /\ DistinctSubjectCNs
  /\ \E k \in 1..Len(chains) : Len(chains[k]) = 3 /\ chains[k] # <<1, 2, 3>>

\* a is a non-CA record, b a non-self-signed CA whose subjectCommonName is a's
\* issuerCommonName, and no record has b's issuerCommonName as its subject.
IsLeafAndIntermediate(a, b) ==
  /\ ~Infos[a].isCA
  /\ Infos[b].isCA /\ ~Infos[b].isSelfSigned
  /\ Infos[a].issuerCommonName = Infos[b].subjectCommonName
  /\ \A j \in 1..NCerts : Infos[j].subjectCommonName # Infos[b].issuerCommonName

LinkedAsParent(i) ==
  \E j \in 1..NCerts : j # i /\ Infos[j].issuerCommonName = Infos[i].subjectCommonName

\* The input holds a strict line and one more record, a self-signed one whose
\* name no record of the line uses.
IsLinePlusUnrelatedRoot ==
  /\ NCerts = 4
  /\ \E p \in Perms(4) :
       /\ IsLine(p[1], p[2], p[3])
       /\ Infos[p[4]].isSelfSigned
       /\ \A k \in 1..3 :
            /\ Infos[p[k]].subjectCommonName # Infos[p[4]].subjectCommonName
            /\ Infos[p[k]].issuerCommonName # Infos[p[4]].subjectCommonName

\* C5 (as claimed): a self-signed record is a one-element chain of its own only
\* when no other record links to it as a child; so a complete chain plus one
\* unrelated self-signed certificate gives 1 or 2 chains.
C5_RootAloneOnlyWhenUnlinked ==
  pc = "done" =>
    /\ \A k \in 1..Len(chains) :
         (Len(chains[k]) = 1 /\ Infos[chains[k][1]].isSelfSigned)
           => ~LinkedAsParent(chains[k][1])
    /\ IsLinePlusUnrelatedRoot => Len(chains) \in 1..2

\* C6: every self-signed record of the input is the last element of some chain.
C6_SelfSignedIsTerminal ==
  pc = "done" =>
    \A i \in 1..NCerts :
      Infos[i].isSelfSigned =>
        \E k \in 1..Len(chains) : chains[k][Len(chains[k])] = i

\* A self-signed CA root that ends the chain of a leaf held with it.
C6_Witness ==
  /\ pc = "done"
  /\ \E i \in 1..NCerts :
       /\ Infos[i].isSelfSigned /\ Infos[i].isCA /\ LinkedAsParent(i)
       /\ \E k \in 1..Len(chains) :
            Len(chains[k]) > 1 /\ chains[k][Len(chains[k])] = i

\* The last record of a chain.
LastOf(ch) == ch[Len(ch)]

\* C25: in every chain, each record after the first has the
\* subjectCommonName that is the issuerCommonName of the record before it;
\* no record follows a self-signed record; and a chain whose last record is
\* not self-signed ends there because no record outside the chain has a
\* subjectCommonName equal to that record's issuerCommonName.
C25_ChainsAreLinked ==
  pc = "done" =>
    \A k \in 1..Len(chains) :
      LET ch == chains[k]
      IN /\ \A m \in 2..Len(ch) :
              Infos[ch[m]].subjectCommonName = Infos[ch[m - 1]].issuerCommonName
         /\ \A m \in 1..(Len(ch) - 1) : ~Infos[ch[m]].isSelfSigned
         /\ ~Infos[LastOf(ch)].isSelfSigned =>
              \A j \in 1..NCerts :
                j \notin Range(ch) =>
                  Infos[j].subjectCommonName # Infos[LastOf(ch)].issuerCommonName

\* One chain of two records ends at a self-signed record while a second
\* record with the root's name is held, and one ends at a record whose
\* issuer is not held.
C25_Witness ==
  /\ pc = "done" /\ NCerts = 3
  /\ \E k \in 1..Len(chains) :
       /\ Len(chains[k]) = 2 /\ Infos[LastOf(chains[k])].isSelfSigned
       /\ \E j \in 1..NCerts :
            /\ j \notin Range(chains[k])
            /\ Infos[j].subjectCommonName = Infos[LastOf(chains[k])].subjectCommonName
  /\ \E k \in 1..Len(chains) : ~Infos[LastOf(chains[k])].isSelfSigned

\* The leaf candidates: the records that are not a CA or are self-signed.
LeafCandidates == {i \in 1..NCerts : ~Infos[i].isCA \/ Infos[i].isSelfSigned}

AttrPool == {Attr(k, v) : k \in {"CN", "OU"}, v \in {"x", "y"}}

DnPool == BoundedSeq(AttrPool, MaxAttrs)

\* One call of extractCertificateInfo on the certificate given.
ExtractInfo ==
  /\ pc = "idle"
  /\ info' = <<extractCertificateInfo(cert)>>
  /\ pc' = "done"
  /\ UNCHANGED <<appVars, cert, pemVars, restVars>>

InfoInit ==
  /\ cert \in {[subject |-> s, issuer |-> i, extensions |-> <<>>] : s \in DnPool, i \in DnPool}
  /\ info = <<>>
  /\ pc = "idle"
  /\ AppIdle
  /\ PemIdle
  /\ RestIdle

InfoNext == ExtractInfo

\* The specification of the derived fields: any certificate, then one call.
SpecInfo == InfoInit /\ [][InfoNext]_vars

\* C7 (as claimed): isSelfSigned is true exactly when the subject and issuer
\* DNs are equal element-wise as ordered attribute sequences, also when a DN
\* repeats an attribute type.
C7_SelfSignedIffSameDN ==
  pc = "done" => (info[1].isSelfSigned <=> cert.subject = cert.issuer)

\* ------------------------------------------------------------------- parsePEM
\* A text is a sequence of tokens: the white-space characters SP, CR and LF,
\* and words that stand for runs of other characters.  A line is a text
\* without LF.
IsSpace(t) == t \in {"SP", "CR", "LF"}

RECURSIVE TrimLeft(_)
TrimLeft(t) == IF t # <<>> /\ IsSpace(Head(t)) THEN TrimLeft(Tail(t)) ELSE t

RECURSIVE TrimRight(_)
TrimRight(t) ==
  IF t # <<>> /\ IsSpace(t[Len(t)]) THEN TrimRight(SubSeq(t, 1, Len(t) - 1)) ELSE t

\* String.prototype.trim
Trim(t) == TrimRight(TrimLeft(t))

\* data.split('\n')
RECURSIVE SplitAcc(_, _, _)
SplitAcc(t, cur, acc) ==
  IF t = <<>> THEN Append(acc, cur)
  ELSE IF Head(t) = "LF" THEN SplitAcc(Tail(t), <<>>, Append(acc, cur))
  ELSE SplitAcc(Tail(t), Append(cur, Head(t)), acc)

SplitLines(t) == SplitAcc(t, <<>>, <<>>)

\* currentBlock.join('\n')
RECURSIVE JoinLines(_)
JoinLines(ls) ==
  IF ls = <<>> THEN <<>>
  ELSE IF Len(ls) = 1 THEN ls[1]
  ELSE ls[1] \o <<"LF">> \o JoinLines(Tail(ls))

\* String.prototype.startsWith, includes
StartsWith(t, prefix) == Len(t) >= Len(prefix) /\ SubSeq(t, 1, Len(prefix)) = prefix

OccursAt(t, sub, i) == i + Len(sub) - 1 <= Len(t) /\ SubSeq(t, i, i + Len(sub) - 1) = sub

Includes(t, sub) == \E i \in 1..Len(t) : OccursAt(t, sub, i)

\* t.replace(/sub/, ''): the first occurrence removed
ReplaceFirst(t, sub) ==
  IF ~Includes(t, sub) THEN t
  ELSE LET i == Min({k \in 1..Len(t) : OccursAt(t, sub, k)})
       IN SubSeq(t, 1, i - 1) \o SubSeq(t, i + Len(sub), Len(t))

\* t.replace(/\s/g, '')
StripSpace(t) == SelectSeq(t, LAMBDA x : ~IsSpace(x))

BeginCertificate == <<"-----BEGIN", "CERTIFICATE", "-----">>

EndCertificate == <<"-----END", "CERTIFICATE", "-----">>

\* The base64 text left of a certificate block once its markers and white space
\* are removed.
PemContent(pemBlock) ==
  StripSpace(ReplaceFirst(ReplaceFirst(pemBlock, BeginCertificate), EndCertificate))

\* decode64, fromDer and safeCertificateFromAsn1 succeed on the base64 of a
\* certificate: here any non-empty run of MIIB words; anything else throws.
Decodes(pemBlock) ==
  /\ PemContent(pemBlock) # <<>>
  /\ \A i \in 1..Len(PemContent(pemBlock)) : PemContent(pemBlock)[i] = "MIIB"

\* blockType.includes('CERTIFICATE')
IsCertificateLabel(blockType) == Includes(blockType, <<"CERTIFICATE">>)

\* Mutant: only the RSA label is taken for a private key.
IsPrivateKeyLabel_RsaOnly(blockType) == Includes(blockType, <<"RSA", "PRIVATE KEY">>)

\* blockType.includes('PRIVATE KEY') || blockType.includes('RSA PRIVATE KEY')
IsPrivateKeyLabel(blockType) ==
  Includes(blockType, <<"PRIVATE KEY">>) \/ Includes(blockType, <<"RSA", "PRIVATE KEY">>)

\* blockType.includes('ENCRYPTED')
IsEncryptedLabel(blockType) == Includes(blockType, <<"ENCRYPTED">>)

\* The loop's variables before the first line; blockType is <<>> for null.
PemStart ==
  [ certificates |-> <<>>, privateKeys |-> <<>>, currentBlock |-> <<>>,
    inBlock |-> FALSE, blockType |-> <<>>, thrown |-> FALSE ]

\* Mutant: a BEGIN line inside an open block is pushed onto it.
OnBegin_Push(st, line, trimmed) ==
  [st EXCEPT !.inBlock = TRUE, !.blockType = <<trimmed>>,
             !.currentBlock = IF st.inBlock THEN Append(@, line) ELSE <<line>>]

\* The -----BEGIN branch.
OnBegin(st, line, trimmed) ==
  [st EXCEPT !.inBlock = TRUE, !.blockType = <<trimmed>>, !.currentBlock = <<line>>]

\* The -----END branch.  With blockType null, blockType.includes throws a
\* TypeError that only the try around the whole loop catches.
OnEnd(st, line) ==
  LET block    == Append(st.currentBlock, line)
      pemBlock == JoinLines(block)
  IN IF st.blockType = <<>>
     THEN [st EXCEPT !.currentBlock = block, !.inBlock = FALSE, !.thrown = TRUE]
     ELSE LET bt == st.blockType[1]
              certs == IF IsCertificateLabel(bt) /\ Decodes(pemBlock)
                       THEN Append(st.certificates,
                                   [ type |-> "certificate",
                                     data |-> [der |-> PemContent(pemBlock)],
                                     pem  |-> pemBlock ])
                       ELSE st.certificates
              keys  == IF ~IsCertificateLabel(bt) /\ IsPrivateKeyLabel(bt)
                       THEN Append(st.privateKeys,
                                   [ type      |-> "privateKey",
                                     pem       |-> pemBlock,
                                     encrypted |-> IsEncryptedLabel(bt) ])
                       ELSE st.privateKeys
          IN [st EXCEPT !.certificates = certs, !.privateKeys = keys,
                        !.currentBlock = <<>>, !.blockType = <<>>, !.inBlock = FALSE]

\* The last branch: any other line.
OnOther(st, line) ==
  IF st.inBlock THEN [st EXCEPT !.currentBlock = Append(@, line)] ELSE st

\* One iteration of the loop over the lines.
PemStep(st, line) ==
  LET trimmed == Trim(line)
  IN IF StartsWith(trimmed, <<"-----BEGIN">>) THEN OnBegin(st, line, trimmed)
     ELSE IF StartsWith(trimmed, <<"-----END">>) THEN OnEnd(st, line)
     ELSE OnOther(st, line)

\* The loop; a throw leaves it.
RECURSIVE PemLoop(_, _, _)
PemLoop(ls, i, st) ==
  IF i > Len(ls) \/ st.thrown THEN st
  ELSE PemLoop(ls, i + 1, PemStep(st, ls[i]))

PemRun(text) == PemLoop(SplitLines(text), 1, PemStart)

Returned(st) == [certificates |-> st.certificates, privateKeys |-> st.privateKeys]

parsePEM(text) == Returned(PemRun(text))

\* The lines a text is drawn from.
LinePool ==
  { BeginCertificate,
    <<"-----BEGIN", "PRIVATE KEY", "-----">>,
    <<"-----BEGIN", "ENCRYPTED", "PRIVATE KEY", "-----">>,
    <<"-----BEGIN", "CERTIFICATE", "PRIVATE KEY", "-----">>,
    EndCertificate,
    <<"-----END", "PRIVATE KEY", "-----">>,
    <<"MIIB">>,
    <<"%%%%">> }

\* One call of parsePEM on the text given.
CallParsePEM ==
  /\ pc = "idle"
  /\ lines' = SplitLines(data)
  /\ LET st == PemRun(data)
     IN /\ parsed' = <<Returned(st)>>
        /\ pemLogged' = st.thrown
  /\ pc' = "done"
  /\ UNCHANGED <<appVars, infoVars, data, restVars>>

PemInit ==
  /\ data \in {JoinLines(ls) : ls \in BoundedSeq(LinePool, MaxLines)}
  /\ lines = <<>>
  /\ parsed = <<>>
  /\ pemLogged = FALSE
  /\ pc = "idle"
  /\ AppIdle
  /\ InfoIdle
  /\ RestIdle

PemNext == CallParsePEM

\* The specification of the PEM framer: any text, then one call.
SpecPEM == PemInit /\ [][PemNext]_vars

\* -------------------------------------------------------- PEM claims: vocabulary
Lines == lines

NLines == Len(Lines)

IsBeginLine(l) == StartsWith(Trim(l), <<"-----BEGIN">>)

IsEndLine(l) == StartsWith(Trim(l), <<"-----END">>)

\* Lines b..e are a complete block: a BEGIN line, an END line, and neither
\* kind of line in between.
CompleteBlock(b, e) ==
  /\ b \in 1..NLines /\ e \in 1..NLines /\ b < e
  /\ IsBeginLine(Lines[b]) /\ IsEndLine(Lines[e])
  /\ \A k \in (b + 1)..(e - 1) : ~IsBeginLine(Lines[k]) /\ ~IsEndLine(Lines[k])

BlockText(b, e) == JoinLines(SubSeq(Lines, b, e))

Label(b) == Trim(Lines[b])

\* An END line that closes no block.
StrayEnd(e) ==
  /\ e \in 1..NLines /\ IsEndLine(Lines[e])
  /\ ~\E b \in 1..NLines : CompleteBlock(b, e)

\* A BEGIN line with no END line before the next BEGIN line or the end.
UnterminatedBegin(b) ==
  /\ b \in 1..NLines /\ IsBeginLine(Lines[b])
  /\ ~\E e \in 1..NLines : CompleteBlock(b, e)

\* The label of line b contains the word.
LabelHas(b, word) == \E i \in 1..Len(Label(b)) : Label(b)[i] = word

\* The block is a well-formed certificate: the certificate markers around a
\* non-empty body of base64 lines that hold a certificate.
WellFormedCert(b, e) ==
  /\ Label(b) = BeginCertificate /\ Trim(Lines[e]) = EndCertificate
  /\ e > b + 1
  /\ \A k \in (b + 1)..(e - 1) : Trim(Lines[k]) = <<"MIIB">>

\* A complete block of a certificate label that decodes / that does not.
GoodCertBlock(b, e) ==
  CompleteBlock(b, e) /\ LabelHas(b, "CERTIFICATE") /\ WellFormedCert(b, e)

BadCertBlock(b, e) ==
  CompleteBlock(b, e) /\ LabelHas(b, "CERTIFICATE") /\ ~WellFormedCert(b, e)

\* A complete block of a private-key label (that is not also a certificate label).
KeyBlock(b, e) == CompleteBlock(b, e) /\ LabelHas(b, "PRIVATE KEY")

PlainKeyBlock(b, e) == KeyBlock(b, e) /\ ~LabelHas(b, "CERTIFICATE")

\* How many blocks of a kind end at or before line e.
CountGoodCerts(e) ==
  Cardinality({e2 \in 1..e : \E b \in 1..e2 : GoodCertBlock(b, e2)})

CountKeys(e) == Cardinality({e2 \in 1..e : \E b \in 1..e2 : KeyBlock(b, e2)})

CountPlainKeys(e) == Cardinality({e2 \in 1..e : \E b \in 1..e2 : PlainKeyBlock(b, e2)})

\* A failure confined to one block lies before line b.
FailureBefore(b) ==
  \/ \E e \in 1..(b - 1) : StrayEnd(e)
  \/ \E e \in 1..(b - 1) : \E b2 \in 1..e : BadCertBlock(b2, e)

Certs == parsed[1].certificates

Keys == parsed[1].privateKeys

\* The block b..e came out as the certificate (the key) of its rank.
CertReturned(b, e) ==
  /\ Len(Certs) >= CountGoodCerts(e)
  /\ Certs[CountGoodCerts(e)].pem = BlockText(b, e)

PlainKeyReturned(b, e) ==
  /\ Len(Keys) >= CountPlainKeys(e)
  /\ Keys[CountPlainKeys(e)].pem = BlockText(b, e)

\* C8 (as claimed): a block that follows an undecodable certificate block or a
\* stray END line of the same input is still parsed and returned.
C8_FailureIsIsolated ==
  pc = "done" =>
    \A b, e \in 1..NLines :
      FailureBefore(b) =>
        /\ GoodCertBlock(b, e) => CertReturned(b, e)
        /\ PlainKeyBlock(b, e) => PlainKeyReturned(b, e)

\* The text without the lines of the unterminated block that starts at line b:
\* line b and the lines up to the next BEGIN line or the end.
NextBegin(b) ==
  IF \E k \in (b + 1)..NLines : IsBeginLine(Lines[k])
  THEN Min({k \in (b + 1)..NLines : IsBeginLine(Lines[k])})
  ELSE NLines + 1

WithoutBlockAt(b) ==
  JoinLines(SubSeq(Lines, 1, b - 1) \o SubSeq(Lines, NextBegin(b), NLines))

\* C9: a BEGIN line never followed by an END line before the next BEGIN line or
\* the end of the input contributes no record (every record returned is the
\* text of a complete block), raises no error (only a stray END line does), and
\* leaves what is returned exactly what the input without it gives.
C9_UnterminatedIsDiscarded ==
  pc = "done" =>
    /\ \A k \in 1..Len(Certs) : \E b, e \in 1..NLines :
         CompleteBlock(b, e) /\ Certs[k].pem = BlockText(b, e)
    /\ \A k \in 1..Len(Keys) : \E b, e \in 1..NLines :
         CompleteBlock(b, e) /\ Keys[k].pem = BlockText(b, e)
    /\ (~\E e \in 1..NLines : StrayEnd(e)) => ~pemLogged
    /\ \A b \in 1..NLines :
         UnterminatedBegin(b) =>
           LET st == PemRun(WithoutBlockAt(b))
           IN Returned(st) = parsed[1] /\ st.thrown = pemLogged

\* An unterminated certificate BEGIN with a body line, then a complete key
\* block, which is the one record returned.
C9_Witness ==
  /\ pc = "done"
  /\ UnterminatedBegin(1) /\ LabelHas(1, "CERTIFICATE")
  /\ NLines = 4 /\ PlainKeyBlock(3, 4)
  /\ Certs = <<>> /\ Len(Keys) = 1 /\ Keys[1].pem = BlockText(3, 4)

NoStrayEnd == ~\E e \in 1..NLines : StrayEnd(e)

MaxChain == 3

\* chain.forEach(certInfo => { output += certInfo.wrapper.pem + '\n' })
RECURSIVE AppendCerts(_, _)
AppendCerts(chain, out) ==
  IF chain = <<>> THEN out
  ELSE AppendCerts(Tail(chain), out \o Head(chain).wrapper.pem \o <<"LF">>)

\* generateNginxFormat(chain, privateKey); privateKey is <<>> when absent.
generateNginxFormat(chain, privateKey) ==
  LET certsOut == AppendCerts(chain, <<>>)
      withKey  == IF privateKey # <<>>
                  THEN certsOut \o <<"LF">> \o privateKey[1].pem
                  ELSE certsOut
  IN Trim(withKey)

\* ---- the round trip: parsePEM, then each certificate alone through the
\* serializer.
\* Lines as files hold them: bare, ended by a carriage return (CRLF files),
\* or indented.
RoundLinePool ==
  { BeginCertificate,
    <<"SP">> \o BeginCertificate,
    BeginCertificate \o <<"CR">>,
    <<"MIIB">>,
    <<"MIIB", "CR">>,
    EndCertificate,
    EndCertificate \o <<"CR">> }

\* Each certificate returned, as a chain of one, without a key.
SerializeEach ==
  /\ pc = "done"
  /\ output' = [k \in 1..Len(parsed[1].certificates) |->
                  generateNginxFormat(<<[wrapper |-> parsed[1].certificates[k]]>>, <<>>)]
  /\ pc' = "out"
  /\ UNCHANGED <<appVars, infoVars, pemVars, bundle, fileVars, uiVars, asn1Vars, lateVars>>

RoundInit ==
  /\ data \in {JoinLines(ls) : ls \in BoundedSeq(RoundLinePool, MaxLines)}
  /\ lines = <<>>
  /\ parsed = <<>>
  /\ pemLogged = FALSE
  /\ pc = "idle"
  /\ AppIdle
  /\ InfoIdle
  /\ RestIdle

RoundNext == CallParsePEM \/ SerializeEach

SpecRound == RoundInit /\ [][RoundNext]_vars

\* C11 (as claimed): every certificate block parsePEM accepted comes out of
\* generateNginxFormat, as a chain of one without a key, as exactly the PEM
\* text of the block, carriage returns and leading whitespace included.
C11_RoundTripIsIdentity ==
  pc = "out" =>
    \A k \in 1..Len(parsed[1].certificates) :
      output[k] = parsed[1].certificates[k].pem

\* ---- the serializer on chains of PEM texts.
\* The PEM of a certificate as parsePEM and safeCertificateToPem keep it (no
\* final line break) and as forge.pki.certificateToPem writes it (CRLF after
\* every line).
CertPemPool ==
  { BeginCertificate \o <<"LF", "MIIB", "LF">> \o EndCertificate,
    BeginCertificate \o <<"LF", "MIIB", "LF", "MIIB", "LF">> \o EndCertificate,
    BeginCertificate \o <<"CR", "LF", "MIIB", "CR", "LF">> \o EndCertificate \o <<"CR", "LF">>,
    <<"SP">> \o BeginCertificate \o <<"LF", "MIIB", "LF">> \o EndCertificate }

KeyPemPool ==
  { <<"-----BEGIN", "PRIVATE KEY", "-----", "LF", "MIIB", "LF", "-----END", "PRIVATE KEY", "-----">>,
    <<"-----BEGIN", "RSA", "PRIVATE KEY", "-----", "CR", "LF", "MIIB", "CR", "LF",
      "-----END", "RSA", "PRIVATE KEY", "-----", "CR", "LF">> }

ChainEntry(pem) == [wrapper |-> [type |-> "certificate", pem |-> pem]]

KeyRecord(pem) == [type |-> "privateKey", pem |-> pem, encrypted |-> FALSE]

CallGenerateNginxFormat ==
  /\ pc = "idle"
  /\ output' = <<generateNginxFormat(bundle[1].chain, bundle[1].privateKey)>>
  /\ pc' = "done"
  /\ UNCHANGED <<appVars, infoVars, pemVars, bundle, fileVars, uiVars, asn1Vars, lateVars>>

NginxInit ==
  /\ bundle \in { <<[chain |-> c, privateKey |-> k]>> :
                    c \in (BoundedSeq({ChainEntry(p) : p \in CertPemPool}, MaxChain) \ {<<>>}),
                    k \in {<<>>} \cup {<<KeyRecord(p)>> : p \in KeyPemPool} }
  /\ output = <<>>
  /\ pc = "idle"
  /\ AppIdle
  /\ InfoIdle
  /\ PemIdle
  /\ FileIdle
  /\ UiIdle
  /\ Asn1Idle
  /\ LateIdle

NginxNext == CallGenerateNginxFormat

SpecNginx == NginxInit /\ [][NginxNext]_vars

\* The lines of the text generateNginxFormat returned.
OutLines == SplitLines(output[1])

IsBlankLine(l) == Trim(l) = <<>>

\* Line i ends a block and line j begins the next one.
AdjacentBlocks(i, j) ==
  /\ i \in 1..Len(OutLines) /\ j \in 1..Len(OutLines) /\ i < j
  /\ IsEndLine(OutLines[i]) /\ IsBeginLine(OutLines[j])
  /\ \A k \in (i + 1)..(j - 1) : IsBlankLine(OutLines[k])

\* C12 (as claimed): in the text generateNginxFormat returns, between the END
\* line of a block and the BEGIN line of the next block there is exactly one
\* blank line.
C12_OneBlankLineBetweenBlocks ==
  pc = "done" =>
    \A i, j \in 1..Len(OutLines) : AdjacentBlocks(i, j) => j - i - 1 = 1

\* The stored PEM texts of the call, each certificate's followed by a line
\* break, in chain order.
RECURSIVE ConcatPems(_)
ConcatPems(chain) ==
  IF chain = <<>> THEN <<>>
  ELSE Head(chain).wrapper.pem \o <<"LF">> \o ConcatPems(Tail(chain))

\* The same with the key's block after a blank line, when a key is given.
PlainConcatenation ==
  ConcatPems(bundle[1].chain)
    \o (IF bundle[1].privateKey # <<>>
        THEN <<"LF">> \o bundle[1].privateKey[1].pem ELSE <<>>)

EndsWithSpace(t) == t # <<>> /\ t[Len(t)] \in {"SP", "CR", "LF"}

\* C26: the text returned is the certificates' stored PEM texts in chain
\* order, then, only when a key is given, a blank line and the key's PEM;
\* it has no trailing whitespace and is otherwise that plain concatenation.
C26_PlainConcatenation ==
  pc = "done" =>
    /\ ~EndsWithSpace(output[1])
    /\ \E n \in 0..Len(PlainConcatenation) :
         /\ output[1] = SubSeq(PlainConcatenation, 1, n)
         /\ \A k \in (n + 1)..Len(PlainConcatenation) :
              PlainConcatenation[k] \in {"SP", "CR", "LF"}

\* ----------------------------------------- parseDER, parsePKCS12, the dispatcher
\* Most certificate bags in a PKCS#12 container.
MaxBags == 2

\* What an operation that may throw gives: a value, or an error's message.
Returns(certs, keys) ==
  [thrown |-> FALSE, message |-> <<>>, certificates |-> certs, privateKeys |-> keys]

Throws(message) ==
  [thrown |-> TRUE, message |-> message, certificates |-> <<>>, privateKeys |-> <<>>]

\* The file read as text: the text of a PEM file, no PEM line in anything else.
AsText(content) == IF content.kind = "pem" THEN content.text ELSE <<"%%%%">>

\* parseDER: the one certificate of a DER file; any failure is caught inside
\* and gives an empty list, so parseDER never throws.
parseDER(content) ==
  IF content.kind = "der"
  THEN Returns(<<[type |-> "certificate", data |-> [der |-> <<"MIIB">>],
                  pem |-> BeginCertificate \o <<"LF", "MIIB", "LF">> \o EndCertificate]>>, <<>>)
  ELSE Returns(<<>>, <<>>)

\* forge.asn1.fromDer and forge.pkcs12.pkcs12FromAsn1 on the bytes: the
\* message of the error thrown, <<>> when the container opens.
OpenPkcs12(content, pw) ==
  IF content.kind \in {"pem", "junk"} THEN <<"Too few bytes to parse DER.">>
  ELSE IF content.kind = "der" THEN <<"Cannot read PKCS#12 PFX.">>
  ELSE IF pw # content.pass
       THEN <<"PKCS#12 MAC could not be verified.", "Invalid password", "?">>
       ELSE <<>>

CertRecord(i) == [type |-> "certificate", data |-> [der |-> <<"bag", i>>], pem |-> <<"bag", i>>]

\* The loop over the certificate bags, from bag i on.
RECURSIVE ExtractCertBags(_, _, _)
ExtractCertBags(bags, i, acc) ==
  IF i > Len(bags) THEN Returns(acc, <<>>)
  ELSE LET bag == bags[i]
       IN IF ~bag.cert THEN ExtractCertBags(bags, i + 1, acc)
          ELSE IF bag.toPem THEN ExtractCertBags(bags, i + 1, Append(acc, CertRecord(i)))
          ELSE IF bag.asn1 = "good" THEN ExtractCertBags(bags, i + 1, Append(acc, CertRecord(i)))
          ELSE IF bag.asn1 = "bad" THEN Throws(<<"Invalid certificate structure">>)
          ELSE ExtractCertBags(bags, i + 1, acc)

\* The loops over the shrouded and the plain key bags.
ExtractKeyBags(n) ==
  [k \in 1..n |-> [type |-> "privateKey", pem |-> <<"key", k>>, encrypted |-> FALSE]]

\* Mutant: the catch of parsePKCS12 rethrows every error as it is.
Pkcs12Catch_Rethrow(message) == Throws(message)

\* The catch of parsePKCS12.
Pkcs12Catch(message) ==
  IF message # <<>> /\ Includes(message, <<"Invalid password">>)
  THEN Throws(<<"INVALID_PASSWORD">>)
  ELSE Throws(message)

parsePKCS12(content, pw) ==
  LET opened == OpenPkcs12(content, pw)
  IN IF opened # <<>> THEN Pkcs12Catch(opened)
     ELSE LET certs == ExtractCertBags(content.certBags, 1, <<>>)
          IN IF certs.thrown THEN Pkcs12Catch(certs.message)
             ELSE Returns(certs.certificates, ExtractKeyBags(content.keyBags))

Resolved(certs, keys, needs) ==
  [settled |-> "resolved", certificates |-> certs, privateKeys |-> keys,
   needsPassword |-> needs, message |-> <<>>]

Rejected(message) ==
  [settled |-> "rejected", certificates |-> <<>>, privateKeys |-> <<>>,
   needsPassword |-> FALSE, message |-> message]

\* parseCertificateFile(file, password): how the promise settles.
parseCertificateFile(f, pw) ==
  IF f.ext \in {"pfx", "p12"}
  THEN LET r == parsePKCS12(f.content, IF pw = NoValue THEN "" ELSE pw)
       IN IF r.thrown
          THEN IF r.message = <<"INVALID_PASSWORD">>
               THEN Resolved(<<>>, <<>>, TRUE)
               ELSE Rejected(r.message)
          ELSE Resolved(r.certificates, r.privateKeys, FALSE)
  ELSE IF f.ext = "der"
  THEN LET r == parseDER(f.content) IN Resolved(r.certificates, r.privateKeys, FALSE)
  ELSE IF f.ext \in {"crt", "cer"}
  THEN LET r == parseDER(f.content)
       IN IF r.thrown
          THEN LET t == parsePEM(AsText(f.content))
               IN Resolved(t.certificates, t.privateKeys, FALSE)
          ELSE Resolved(r.certificates, r.privateKeys, FALSE)
  ELSE LET t == parsePEM(AsText(f.content))
       IN Resolved(t.certificates, t.privateKeys, FALSE)

\* The files given.
OneCertText == BeginCertificate \o <<"LF", "MIIB", "LF">> \o EndCertificate

OneKeyText ==
  <<"-----BEGIN", "PRIVATE KEY", "-----", "LF", "MIIB", "LF", "-----END", "PRIVATE KEY", "-----">>

BagPool ==
  { [cert |-> TRUE, toPem |-> TRUE, asn1 |-> "none"],
    [cert |-> TRUE, toPem |-> FALSE, asn1 |-> "none"],
    [cert |-> TRUE, toPem |-> FALSE, asn1 |-> "good"],
    [cert |-> TRUE, toPem |-> FALSE, asn1 |-> "bad"],
    [cert |-> FALSE, toPem |-> FALSE, asn1 |-> "good"] }

Blank == [kind |-> "junk", text |-> <<>>, pass |-> "", certBags |-> <<>>, keyBags |-> 0]

ContentPool ==
  { [Blank EXCEPT !.kind = "pem", !.text = t] :
      t \in {OneCertText, OneKeyText, OneCertText \o <<"LF">> \o OneKeyText} }
  \cup { Blank, [Blank EXCEPT !.kind = "der"] }
  \cup { [Blank EXCEPT !.kind = "p12", !.pass = pw, !.certBags = bs, !.keyBags = n] :
           pw \in {"", "a"}, bs \in BoundedSeq(BagPool, MaxBags), n \in 0..1 }

FilePool ==
  { [ext |-> x, content |-> c] :
      x \in {"pfx", "p12", "der", "crt", "cer", "pem"}, c \in ContentPool }

CallParseCertificateFile ==
  /\ pc = "idle"
  /\ fileResult' = <<parseCertificateFile(file[1], password)>>
  /\ pc' = "done"
  /\ UNCHANGED <<appVars, infoVars, pemVars, nginxVars, file, password, uiVars, asn1Vars, lateVars>>

FileInit ==
  /\ file \in {<<f>> : f \in FilePool}
  /\ password \in {NoValue, "a", "b"}
  /\ fileResult = <<>>
  /\ pc = "idle"
  /\ AppIdle
  /\ InfoIdle
  /\ PemIdle
  /\ NginxIdle
  /\ UiIdle
  /\ Asn1Idle
  /\ LateIdle

FileNext == CallParseCertificateFile

SpecFile == FileInit /\ [][FileNext]_vars

\* ------------------------------------------------------ file claims: vocabulary
IsPkcs12File == file[1].ext \in {"pfx", "p12"}

IsContainer == file[1].content.kind = "p12"

GivenPassword == IF password = NoValue THEN "" ELSE password

\* The bytes are a PKCS#12 container and the password given does not open it.
WrongPassword == IsContainer /\ GivenPassword # file[1].content.pass

\* Bag i cannot be converted: the standard conversion fails and so does the
\* manual path.
Unconvertible(i) ==
  LET bag == file[1].content.certBags[i]
  IN bag.cert /\ ~bag.toPem /\ bag.asn1 = "bad"

\* Bag i is converted by the standard conversion or by the manual path.
Convertible(i) ==
  LET bag == file[1].content.certBags[i]
  IN bag.cert /\ (bag.toPem \/ bag.asn1 = "good")

\* C13: for a pfx/p12 file the call resolves with needsPassword exactly when
\* the container's password is wrong, and then with empty lists; bytes that are
\* no container at all, and every failure met under the right password, reject
\* the call.
C13_NeedsPasswordIffWrongPassword ==
  (pc = "done" /\ IsPkcs12File) =>
    LET r == fileResult[1]
    IN /\ (r.settled = "resolved" /\ r.needsPassword) <=> WrongPassword
       /\ r.needsPassword => (r.certificates = <<>> /\ r.privateKeys = <<>>)
       /\ ~IsContainer => r.settled = "rejected"
       /\ (r.settled = "rejected") => ~r.needsPassword

\* A container opened with the wrong password: needsPassword, nothing else.
C13_Witness ==
  /\ pc = "done" /\ IsPkcs12File /\ WrongPassword
  /\ password = "b" /\ file[1].content.pass = "a"
  /\ Len(file[1].content.certBags) = 1 /\ Convertible(1)
  /\ fileResult[1].settled = "resolved" /\ fileResult[1].needsPassword
  /\ fileResult[1].certificates = <<>>

\* The file holds one valid PEM certificate.
HoldsPemCertificate ==
  file[1].content.kind = "pem" /\ Includes(file[1].content.text, BeginCertificate)

\* C16 (as claimed): a .crt/.cer file that holds a valid PEM certificate
\* resolves with that certificate.
C16_CrtFallsBackToPem ==
  (pc = "done" /\ file[1].ext \in {"crt", "cer"} /\ HoldsPemCertificate) =>
    /\ fileResult[1].settled = "resolved"
    /\ Len(fileResult[1].certificates) = 1
    /\ fileResult[1].certificates[1].pem = OneCertText

\* C17 (as claimed): with the container open, a certificate bag that cannot be
\* converted does not abort the extraction: every convertible certificate bag
\* and every key bag is returned.
C17_BadBagDoesNotAbort ==
  (pc = "done" /\ IsPkcs12File /\ IsContainer /\ ~WrongPassword) =>
    LET r    == fileResult[1]
        bags == file[1].content.certBags
    IN (\E i \in 1..Len(bags) : Unconvertible(i)) =>
         /\ r.settled = "resolved"
         /\ \A i \in 1..Len(bags) :
              Convertible(i) => \E k \in 1..Len(r.certificates) :
                                  r.certificates[k] = CertRecord(i)
         /\ Len(r.privateKeys) = file[1].content.keyBags

\* --------------------------------------------------- the App's file handlers
\* Most files in one drop, and most certificates the App is let to hold.
MaxDrop == 2
MaxHeld == 3

\* The files a user drops: two containers with a password, one without, a
\* PEM certificate, and a .pfx that is no container.
OneBagContainer(pw) ==
  [Blank EXCEPT !.kind = "p12", !.pass = pw,
                !.certBags = <<[cert |-> TRUE, toPem |-> TRUE, asn1 |-> "none"]>>,
                !.keyBags = 1]

AppFiles ==
  { [name |-> "a.pfx", ext |-> "pfx", content |-> OneBagContainer("a")],
    [name |-> "b.p12", ext |-> "p12", content |-> OneBagContainer("b")],
    [name |-> "open.pfx", ext |-> "pfx", content |-> OneBagContainer("")],
    [name |-> "cert.pem", ext |-> "pem",
     content |-> [Blank EXCEPT !.kind = "pem", !.text = OneCertText]],
    [name |-> "junk.pfx", ext |-> "pfx", content |-> Blank] }

\* The App state the handlers write, with the names reported so far by the
\* handler that is running.
AppState ==
  [certificates |-> certificates, privateKeys |-> privateKeys, error |-> error,
   pendingFile |-> pendingFile, showPasswordModal |-> showPasswordModal,
   reported |-> {}]

WithFileName(recs, name) ==
  [k \in 1..Len(recs) |-> [type |-> recs[k].type, pem |-> recs[k].pem, fileName |-> name]]

\* processFile(file, password)
processFile(st, f, pw) ==
  LET result == parseCertificateFile(f, pw)
  IN IF result.settled = "rejected"
     THEN [st EXCEPT !.error = "Failed to process file"]
     ELSE IF result.needsPassword
     THEN [st EXCEPT !.error = NoValue, !.pendingFile = <<f>>,
                     !.showPasswordModal = TRUE, !.reported = @ \cup {f.name}]
     ELSE [st EXCEPT !.error = NoValue,
                     !.certificates = @ \o WithFileName(result.certificates, f.name),
                     !.privateKeys = @ \o WithFileName(result.privateKeys, f.name)]

\* for (const file of files) await processFile(file)
RECURSIVE ProcessAll(_, _)
ProcessAll(st, files) ==
  IF files = <<>> THEN st
  ELSE ProcessAll(processFile(st, Head(files), NoValue), Tail(files))

\* CertificateFlow.jsx:23-53, the nodes computed from the props: one per
\* certificate (id cert-<index>) and one per private key (id key-<index>).
initialNodes(certs, keys) ==
  [i \in 1..Len(certs) |-> [id |-> <<"cert", i - 1>>, type |-> "certificate"]]
  \o [i \in 1..Len(keys) |-> [id |-> <<"key", i - 1>>, type |-> "privateKey"]]

\* CertificateFlow.jsx:82, const [nodes, , onNodesChange] = useNodesState(
\* initialNodes): the hook keeps its own state; its argument is the initial
\* value, read when the component mounts, and the setter is discarded.
useNodesState(held, initial, mounted) == IF mounted THEN held ELSE initial

\* App.jsx:159-163, CertificateFlow is rendered by every render of the App, so
\* it is mounted by the first one (with no certificates and no keys) and
\* every later render re-renders the mounted component.
RenderFlow(certs, keys) == useNodesState(nodes, initialNodes(certs, keys), TRUE)

\* The state a handler leaves; the file in the modal then counts as offered.
Commit(st) ==
  /\ certificates' = st.certificates
  /\ privateKeys' = st.privateKeys
  /\ error' = st.error
  /\ pendingFile' = st.pendingFile
  /\ showPasswordModal' = st.showPasswordModal
  /\ reported' = st.reported
  /\ offered' = IF st.showPasswordModal /\ st.pendingFile # <<>>
                THEN offered \cup {st.pendingFile[1].name}
                ELSE offered
  /\ nodes' = RenderFlow(st.certificates, st.privateKeys)
  /\ UNCHANGED <<chains, exported, infoVars, pemVars, nginxVars, fileVars, asn1Vars, wasmVars, joinVars, taskVars, pc>>

HandleFilesDropped ==
  \E files \in BoundedSeq(AppFiles, MaxDrop) \ {<<>>} :
    /\ Len(certificates) + Len(files) <= MaxHeld
    /\ Commit(ProcessAll(AppState, files))

HandlePasswordSubmit ==
  \E pw \in {"a", "b"} :
    /\ showPasswordModal
    /\ Len(certificates) < MaxHeld
    /\ LET st == IF pendingFile # <<>>
                 THEN [processFile(AppState, pendingFile[1], pw) EXCEPT !.pendingFile = <<>>]
                 ELSE AppState
       IN Commit([st EXCEPT !.showPasswordModal = FALSE])

HandlePasswordCancel ==
  /\ showPasswordModal
  /\ Commit([AppState EXCEPT !.pendingFile = <<>>, !.showPasswordModal = FALSE])

HandleClearAll ==
  /\ certificates # <<>> \/ privateKeys # <<>>
  /\ Commit([AppState EXCEPT !.certificates = <<>>, !.privateKeys = <<>>, !.error = NoValue])

CloseError ==
  /\ error # NoValue
  /\ Commit([AppState EXCEPT !.error = NoValue])

UiInit ==
  /\ AppIdle
  /\ UiIdle
  /\ pc = "idle"
  /\ InfoIdle
  /\ PemIdle
  /\ NginxIdle
  /\ FileIdle
  /\ Asn1Idle
  /\ WasmIdle
  /\ JoinIdle
  /\ TaskIdle
  /\ nodes = useNodesState(<<>>, initialNodes(<<>>, <<>>), FALSE)

UiNext ==
  \/ HandleFilesDropped
  \/ HandlePasswordSubmit
  \/ HandlePasswordCancel
  \/ HandleClearAll
  \/ CloseError

SpecApp == UiInit /\ [][UiNext]_vars

\* The user answers a password prompt that is shown.
SpecAppLive == SpecApp /\ WF_vars(HandlePasswordSubmit \/ HandlePasswordCancel)

\* The modal is shown for the file of this name.
PromptShownFor(n) ==
  showPasswordModal /\ pendingFile # <<>> /\ pendingFile[1].name = n

\* C14 (as claimed): when a handler has finished, every file whose parse
\* reported needsPassword during it is the pending file of a shown modal, or an
\* error is displayed.
C14_WrongPasswordNeverDropped ==
  \A n \in reported : PromptShownFor(n) \/ error # NoValue

\* C15 (as claimed): every file whose parse reported needsPassword is
\* eventually offered in the password modal.
C15_EveryFileIsOffered ==
  \A f \in AppFiles : (f.name \in reported) ~> (f.name \in offered)


\* The ids of the nodes the diagram shows, and the ids of the records held.
ShownIds == {nodes[i].id : i \in 1..Len(nodes)}

HeldIds ==
  {<<"cert", i - 1>> : i \in 1..Len(certificates)}
  \cup {<<"key", i - 1>> : i \in 1..Len(privateKeys)}

\* C23: after any sequence of file loads the diagram contains exactly one
\* node per certificate and one node per private key held by the App, with
\* the ids cert-i and key-i.
C23_NodesFollowAppState ==
  /\ ShownIds = HeldIds
  /\ Len(nodes) = Len(certificates) + Len(privateKeys)

\* ------------------------------------------------- safeCertificateFromAsn1
\* An ASN.1 node as forge.asn1.fromDer gives it.  The code reads node.value
\* both for the children of a constructed node and for the content of a
\* primitive one; here value holds the children and content holds the
\* primitive's bytes (character codes of a string, arcs of an object
\* identifier, two-digit fields of a time).  An OCTET STRING that wraps DER has
\* as its one child the node the bytes decode to, and no child when they do
\* not decode.
Node(c, t, children, bytes) ==
  [tagClass |-> c, type |-> t, value |-> children, content |-> bytes]

Prim(t, bytes) == Node("UNIVERSAL", t, <<>>, bytes)

Cons(t, children) == Node("UNIVERSAL", t, children, <<>>)

CtxPrim(t, bytes) == Node("CONTEXT_SPECIFIC", t, <<>>, bytes)

CtxCons(t, children) == Node("CONTEXT_SPECIFIC", t, children, <<>>)

\* forge.asn1.Type.BOOLEAN, and the tag of the extensions field.
BOOLEAN_TYPE == 1
EXTENSIONS_TAG == 3

\* What a decoder gives: a certificate record, or an error's message.
Decoded(c) == [thrown |-> FALSE, message |-> <<>>, cert |-> <<c>>]

Fails(message) == [thrown |-> TRUE, message |-> message, cert |-> <<>>]

\* A Date value: every Date object is truthy, so dates are kept in a one
\* element sequence and <<>> stands for a falsy result.
Date(y, mo, d, h, mi, sec) ==
  <<[year |-> y, month |-> mo, day |-> d, hours |-> h, minutes |-> mi, seconds |-> sec]>>

\* forge.asn1.utcTimeToDate on the fields YY MM DD hh mm ss... of the string:
\* it reads two digits per field from the start, whatever the string holds.
utcTimeToDate(t) ==
  Date(IF t[1] >= 50 THEN 1900 + t[1] ELSE 2000 + t[1], t[2], t[3], t[4], t[5], t[6])

\* forge.asn1.generalizedTimeToDate on the fields CC YY MM DD hh mm ss.
generalizedTimeToDate(t) == Date(t[1] * 100 + t[2], t[3], t[4], t[5], t[6], t[7])

\* a || b
JsOr(a, b) == IF a # <<>> THEN a ELSE b

\* forge.asn1.derToOid: the dotted form of the object identifiers met here.
derToOid(arcs) ==
  CASE arcs = <<2, 5, 4, 3>> -> "2.5.4.3"
    [] arcs = <<2, 5, 4, 11>> -> "2.5.4.11"
    [] arcs = <<1, 2, 840, 113549, 1, 9, 1>> -> "1.2.840.113549.1.9.1"
    [] arcs = <<2, 5, 29, 19>> -> "2.5.29.19"
    [] arcs = <<2, 5, 29, 15>> -> "2.5.29.15"
    [] arcs = <<1, 2, 840, 113549, 1, 1, 1>> -> "1.2.840.113549.1.1.1"
    [] arcs = <<1, 2, 840, 10045, 2, 1>> -> "1.2.840.10045.2.1"
    [] OTHER -> "1.2.840.113549.1.1.11"

\* forge.pki.oids[oid] || oid
OidName(oid) ==
  CASE oid = "2.5.4.3" -> "commonName"
    [] oid = "2.5.4.11" -> "organizationalUnitName"
    [] oid = "1.2.840.113549.1.9.1" -> "emailAddress"
    [] oid = "2.5.29.19" -> "basicConstraints"
    [] oid = "2.5.29.15" -> "keyUsage"
    [] OTHER -> oid

\* _getShortName(oid)
GetShortName(oid) ==
  CASE oid = "2.5.4.3" -> "CN"
    [] oid = "2.5.4.11" -> "OU"
    [] oid = "1.2.840.113549.1.9.1" -> "emailAddress"
    [] OTHER -> OidName(oid)

\* The string of an attribute value's bytes.
StringOf(bytes) ==
  CASE bytes = <<120>> -> "x"
    [] bytes = <<121>> -> "y"
    [] OTHER -> ""

\* _parseRDNSequence(rdn): the attributes of every set, in order.
RECURSIVE FlattenSets(_)
FlattenSets(sets) ==
  IF sets = <<>> THEN <<>>
  ELSE [k \in 1..Len(Head(sets).value) |->
          LET attrSeq == Head(sets).value[k]
              oid     == derToOid(attrSeq.value[1].content)
          IN [type |-> oid, value |-> StringOf(attrSeq.value[2].content),
              valueTagClass |-> attrSeq.value[2].type,
              name |-> OidName(oid), shortName |-> GetShortName(oid)]]
       \o FlattenSets(Tail(sets))

ParseRDNSequence(rdn) == FlattenSets(rdn.value)

\* Mutant: the first element counts as the CA flag whatever its type.
CaFlag_IgnoresType(bcAsn1) == bcAsn1.value[1].content[1] # 0

\* bcAsn1.value[0].type === BOOLEAN && bcAsn1.value[0].value.charCodeAt(0) !== 0
CaFlag(bcAsn1) ==
  bcAsn1.value[1].type = BOOLEAN_TYPE /\ bcAsn1.value[1].content[1] # 0

\* One extension record of _parseExtensions.  value is the node whose bytes
\* ext.value holds.  cA is left undefined by the code when it is not set;
\* every reader tests cA === true, so FALSE stands for it.
ParseExtension(extValue) ==
  LET id       == derToOid(extValue.value[1].content)
      hasCrit  == extValue.value[2].type = BOOLEAN_TYPE
      critical == IF hasCrit THEN extValue.value[2].content[1] # 0 ELSE FALSE
      valueIdx == IF hasCrit THEN 3 ELSE 2
      value    == extValue.value[valueIdx]
      name     == OidName(id)
      cA       == IF (id = "2.5.29.19" \/ name = "basicConstraints")
                     /\ Len(value.value) > 0
                     /\ Len(value.value[1].value) > 0
                  THEN CaFlag(value.value[1])
                  ELSE FALSE
  IN [id |-> id, critical |-> critical, value |-> value, name |-> name, cA |-> cA]

\* _parseExtensions(extSeq)
ParseExtensions(extSeq) == [k \in 1..Len(extSeq.value) |-> ParseExtension(extSeq.value[k])]

\* forge.util.bytesToHex: two hexadecimal digits for each byte.
RECURSIVE bytesToHex(_)
bytesToHex(bytes) ==
  IF bytes = <<>> THEN <<>>
  ELSE <<Head(bytes) \div 16, Head(bytes) % 16>> \o bytesToHex(Tail(bytes))

\* tbsCert.value[idx].tagClass === forge.asn1.Class.CONTEXT_SPECIFIC, the test
\* for the optional version (part_001:346).
HasVersion(tbs) == tbs[1].tagClass = "CONTEXT_SPECIFIC"

\* Mutant of the displayed version: the ASN.1 value as it is.
DisplayVersion_Raw(certVersion) == certVersion

\* version: capture.certVersion + 1 (part_001:388).
DisplayVersion(certVersion) == certVersion + 1

\* The two times of a validity node as the manual walk decodes them.
ManualValidity(validity) ==
  [ notBefore |-> JsOr(utcTimeToDate(validity.value[1].content),
                       generalizedTimeToDate(validity.value[1].content)),
    notAfter  |-> JsOr(utcTimeToDate(validity.value[2].content),
                       generalizedTimeToDate(validity.value[2].content)) ]

\* The capture object of the manual walk: the fields of tbsCertificate taken
\* by position, idx moving past the version when it is there.
ManualCapture(tree) ==
  LET tbs    == tree.value[1].value
      hasVer == HasVersion(tbs)
      idx    == IF hasVer THEN 2 ELSE 1
      extIdx == idx + 6
      hasExt == /\ extIdx <= Len(tbs)
                /\ tbs[extIdx].tagClass = "CONTEXT_SPECIFIC"
                /\ tbs[extIdx].type = EXTENSIONS_TAG
  IN [ certVersion       |-> IF hasVer THEN tbs[1].value[1].content[1] ELSE 0,
       serialNumber      |-> tbs[idx].content,
       certSignatureOid  |-> derToOid(tbs[idx + 1].value[1].content),
       certIssuer        |-> tbs[idx + 2],
       certValidity      |-> ManualValidity(tbs[idx + 3]),
       certSubject       |-> tbs[idx + 4],
       certPublicKeyInfo |-> tbs[idx + 5],
       certExtensions    |-> IF hasExt THEN <<tbs[extIdx].value[1]>> ELSE <<>> ]

\* The manual walk of safeCertificateFromAsn1: the certificate object made
\* from the capture.
ManualWalk(tree) ==
  LET certSeq == tree.value
  IN IF Len(certSeq) < 3 THEN Fails(<<"Invalid certificate structure">>)
     ELSE
       LET capture == ManualCapture(tree)
       IN Decoded(
            [ version      |-> DisplayVersion(capture.certVersion),
              serialNumber |-> bytesToHex(capture.serialNumber),
              validity     |-> capture.certValidity,
              issuer       |-> ParseRDNSequence(capture.certIssuer),
              subject      |-> ParseRDNSequence(capture.certSubject),
              extensions   |-> IF capture.certExtensions # <<>>
                               THEN ParseExtensions(capture.certExtensions[1]) ELSE <<>>,
              publicKey    |-> "null" ])

\* forge.pki.certificateFromAsn1: the fields of tbsCertificate by their tags
\* (the optional version, unique identifiers and extensions where they are),
\* each time read by its own type.
TimeOf(node) ==
  IF node.type = 23 THEN utcTimeToDate(node.content) ELSE generalizedTimeToDate(node.content)

ExtensionsField(tbs, from) ==
  LET at == {k \in from..Len(tbs) :
               tbs[k].tagClass = "CONTEXT_SPECIFIC" /\ tbs[k].type = EXTENSIONS_TAG}
  IN IF at = {} THEN <<>> ELSE tbs[Min(at)].value[1].value

IsX509(tree) == Len(tree.value) = 3

X509Fields(tree) ==
  LET tbs    == tree.value[1].value
      hasVer == tbs[1].tagClass = "CONTEXT_SPECIFIC" /\ tbs[1].type = 0
      base   == IF hasVer THEN 1 ELSE 0
  IN [ version      |-> IF hasVer THEN tbs[1].value[1].content[1] ELSE 0,
       serialNumber |-> bytesToHex(tbs[base + 1].content),
       validity     |-> [ notBefore |-> TimeOf(tbs[base + 4].value[1]),
                          notAfter  |-> TimeOf(tbs[base + 4].value[2]) ],
       issuer       |-> ParseRDNSequence(tbs[base + 3]),
       subject      |-> ParseRDNSequence(tbs[base + 5]),
       extensions   |-> LET exts == ExtensionsField(tbs, base + 7)
                        IN [k \in 1..Len(exts) |-> ParseExtension(exts[k])],
       keyOid       |-> derToOid(tbs[base + 6].value[1].value[1].content) ]

PrimaryDecode(tree) ==
  IF ~IsX509(tree) THEN Fails(<<"Cannot read X.509 certificate.">>)
  ELSE LET f == X509Fields(tree)
       IN IF f.keyOid # "1.2.840.113549.1.1.1"
          THEN Fails(<<"Cannot read public key", ". Unknown OID.">>)
          ELSE Decoded([ version |-> f.version, serialNumber |-> f.serialNumber,
                         validity |-> f.validity, issuer |-> f.issuer,
                         subject |-> f.subject, extensions |-> f.extensions,
                         publicKey |-> "rsa" ])

safeCertificateFromAsn1(tree) ==
  LET primary == PrimaryDecode(tree)
  IN IF ~primary.thrown THEN primary
     ELSE IF primary.message = <<>> \/ ~Includes(primary.message, <<"Cannot read public key">>)
     THEN primary
     ELSE ManualWalk(tree)

\* ---- the certificate trees given.
\* Distinguished names: sequences of sets of <<oid, value>> pairs.
NameNode(dn) ==
  Cons(16, [i \in 1..Len(dn) |->
              Cons(17, [j \in 1..Len(dn[i]) |->
                          Cons(16, <<Prim(6, dn[i][j][1]), Prim(19, dn[i][j][2])>>)])])

NamePool ==
  { << << << <<2, 5, 4, 3>>, <<120>> >> >> >>,
    << << << <<2, 5, 4, 3>>, <<121>> >> >> >>,
    << << << <<2, 5, 4, 11>>, <<120>> >>, << <<2, 5, 4, 11>>, <<121>> >> >>,
       << << <<2, 5, 4, 3>>, <<120>> >> >> >>,
    << << << <<1, 2, 840, 113549, 1, 9, 1>>, <<120>> >> >> >> }

\* Times: UTCTime YYMMDDhhmmss, GeneralizedTime CCYYMMDDhhmmss.
TimePool ==
  { Prim(23, <<5, 1, 2, 3, 4, 5>>),
    Prim(23, <<70, 1, 2, 3, 4, 5>>),
    Prim(24, <<20, 5, 1, 2, 3, 4, 5>>),
    Prim(24, <<20, 50, 1, 2, 3, 4, 5>>) }

KeyNode(arcs) == Cons(16, <<Cons(16, <<Prim(6, arcs)>>), Prim(3, <<0>>)>>)

\* Extensions: the identifier, the optional criticality, and the value.
ExtNode(arcs, crit, inner) ==
  Cons(16, <<Prim(6, arcs)>> \o crit \o <<Cons(4, inner)>>)

CriticalPool == { <<>>, <<Prim(BOOLEAN_TYPE, <<255>>)>>, <<Prim(BOOLEAN_TYPE, <<0>>)>> }

\* The value of BasicConstraints: an empty SEQUENCE, cA alone (true, false),
\* a path length alone, cA with a path length, and bytes that do not decode.
ConstraintsPool ==
  { <<Cons(16, <<>>)>>,
    <<Cons(16, <<Prim(BOOLEAN_TYPE, <<255>>)>>)>>,
    <<Cons(16, <<Prim(BOOLEAN_TYPE, <<0>>)>>)>>,
    <<Cons(16, <<Prim(2, <<3>>)>>)>>,
    <<Cons(16, <<Prim(BOOLEAN_TYPE, <<255>>), Prim(2, <<0>>)>>)>>,
    <<>> }

ExtPool ==
  { ExtNode(<<2, 5, 29, 19>>, c, v) : c \in CriticalPool, v \in ConstraintsPool }
  \cup { ExtNode(<<2, 5, 29, 15>>, c, <<Prim(3, <<6>>)>>) : c \in CriticalPool }

\* The fields that may follow subjectPublicKeyInfo: the unique identifiers
\* [1] and [2], and the extensions [3].
TailPool ==
  LET uids == { <<>>, <<CtxPrim(1, <<0>>)>>, <<CtxPrim(2, <<0>>)>> }
      exts == { <<>>,
                <<CtxCons(EXTENSIONS_TAG,
                    <<Cons(16, <<ExtNode(<<2, 5, 29, 19>>, <<Prim(BOOLEAN_TYPE, <<255>>)>>,
                                         <<Cons(16, <<Prim(BOOLEAN_TYPE, <<255>>)>>)>>)>>)>>)>>,
                <<CtxCons(EXTENSIONS_TAG,
                    <<Cons(16, <<ExtNode(<<2, 5, 29, 15>>, <<>>, <<Prim(3, <<6>>)>>)>>)>>)>> }
  IN { u \o e : u \in uids, e \in exts }

Tbs(ver, serial, issuer, nb, na, subject, key, tail) ==
  Cons(16, ver \o <<Prim(2, serial), Cons(16, <<Prim(6, <<1, 2, 840, 113549, 1, 1, 11>>)>>),
                    NameNode(issuer), Cons(16, <<nb, na>>), NameNode(subject),
                    KeyNode(key)>> \o tail)

Signed(tbs) ==
  Cons(16, <<tbs, Cons(16, <<Prim(6, <<1, 2, 840, 113549, 1, 1, 11>>)>>), Prim(3, <<0, 1>>)>>)

TreePool ==
  { Signed(Tbs(ver, serial, issuer, nb, na, subject, key, tail)) :
      ver \in { <<>>, <<CtxCons(0, <<Prim(2, <<2>>)>>)>> },
      serial \in { <<1>>, <<10, 255>> },
      issuer \in {<< << << <<2, 5, 4, 3>>, <<120>> >> >> >>},
      nb \in TimePool, na \in TimePool,
      subject \in NamePool,
      key \in {<<1, 2, 840, 113549, 1, 1, 1>>, <<1, 2, 840, 10045, 2, 1>>},
      tail \in TailPool }
  \cup { Cons(16, <<Prim(2, <<1>>)>>), Cons(16, <<>>) }

CallSafeCertificateFromAsn1 ==
  /\ pc = "idle"
  /\ record' = <<[ primary  |-> PrimaryDecode(asn1[1]),
                   manual   |-> ManualWalk(asn1[1]),
                   capture  |-> IF Len(asn1[1].value) < 3 THEN <<>>
                                ELSE <<ManualCapture(asn1[1])>>,
                   returned |-> safeCertificateFromAsn1(asn1[1]) ]>>
  /\ pc' = "done"
  /\ UNCHANGED <<appVars, infoVars, pemVars, nginxVars, fileVars, uiVars, asn1, lateVars>>

Asn1Init ==
  /\ asn1 \in {<<t>> : t \in TreePool}
  /\ record = <<>>
  /\ pc = "idle"
  /\ AppIdle
  /\ InfoIdle
  /\ PemIdle
  /\ NginxIdle
  /\ FileIdle
  /\ UiIdle
  /\ LateIdle

Asn1Next == CallSafeCertificateFromAsn1

SpecAsn1 == Asn1Init /\ [][Asn1Next]_vars

\* ---------------------------------------------------- decoder claims: vocabulary
Tree == asn1[1]

Primary == record[1].primary

Manual == record[1].manual

ReturnedCert == record[1].returned

\* A distinguished name: the <<type, value>> pairs of its attributes in order.
DnOf(attrs) == [k \in 1..Len(attrs) |-> <<attrs[k].type, attrs[k].value>>]

\* The identifiers of the extensions, in order.
ExtIdsOf(exts) == [k \in 1..Len(exts) |-> exts[k].id]

\* The two records carry the same issuer, subject, validity and serial number.
SameIdentity(a, b) ==
  /\ DnOf(a.issuer) = DnOf(b.issuer)
  /\ DnOf(a.subject) = DnOf(b.subject)
  /\ a.validity = b.validity
  /\ a.serialNumber = b.serialNumber

\* C18 (as claimed): on every certificate tree the primary decoder reads, the
\* manual positional walk gives the same issuer DN, subject DN, validity
\* interval and serial number, for UTCTime and for GeneralizedTime.
C18_DecodersAgree ==
  (pc = "done" /\ ~Primary.thrown) =>
    /\ ~Manual.thrown
    /\ SameIdentity(Primary.cert[1], Manual.cert[1])

\* The tree is a certificate whose public key the primary decoder cannot read.
UnreadableKey == IsX509(Tree) /\ X509Fields(Tree).keyOid # "1.2.840.113549.1.1.1"

\* C19 (as claimed): safeCertificateFromAsn1 returns the primary decoder's
\* record when that decoder succeeds; when it fails on the public key, a
\* record with publicKey null and the certificate's issuer, subject, validity,
\* serial number and extensions; any other failure is thrown again as it is.
C19_FallbackOnlyForPublicKey ==
  pc = "done" =>
    /\ ~Primary.thrown => ReturnedCert = Primary
    /\ UnreadableKey =>
         /\ ~ReturnedCert.thrown
         /\ ReturnedCert.cert[1].publicKey = "null"
         /\ SameIdentity(ReturnedCert.cert[1], X509Fields(Tree))
         /\ ExtIdsOf(ReturnedCert.cert[1].extensions) = ExtIdsOf(X509Fields(Tree).extensions)
    /\ (Primary.thrown /\ ~UnreadableKey) =>
         (ReturnedCert.thrown /\ ReturnedCert.message = Primary.message)

\* The children of tbsCertificate, and those that are not context-specific:
\* serial number, signature algorithm, issuer, validity, subject and
\* SubjectPublicKeyInfo, in this order.
TbsOf == Tree.value[1].value

IsTagged(node) == node.tagClass = "CONTEXT_SPECIFIC"

NotTagged(node) == ~IsTagged(node)

LogicalFields == SelectSeq(TbsOf, NotTagged)

VersionPresent == IsTagged(TbsOf[1]) /\ TbsOf[1].type = 0

Asn1Version == IF VersionPresent THEN TbsOf[1].value[1].content[1] ELSE 0

Capture == record[1].capture[1]

\* C27: in the manual walk, with the [0] version present and with it absent,
\* serial number, signature algorithm, issuer, validity, subject and
\* SubjectPublicKeyInfo are read from the same logical fields; an absent
\* version gives the ASN.1 version 0, and the version of the record is the
\* ASN.1 value plus 1.
C27_VersionLookAhead ==
  (pc = "done" /\ Len(Tree.value) = 3) =>
    /\ Capture.serialNumber = LogicalFields[1].content
    /\ Capture.certSignatureOid = derToOid(LogicalFields[2].value[1].content)
    /\ Capture.certIssuer = LogicalFields[3]
    /\ Capture.certValidity = ManualValidity(LogicalFields[4])
    /\ Capture.certSubject = LogicalFields[5]
    /\ Capture.certPublicKeyInfo = LogicalFields[6]
    /\ Capture.certVersion = Asn1Version
    /\ ~VersionPresent => Capture.certVersion = 0
    /\ Manual.cert[1].version = Asn1Version + 1

\* A v3 certificate with a key the primary decoder cannot read: the manual
\* walk's record is returned, with version 3.
C27_Witness ==
  /\ pc = "done" /\ Len(Tree.value) = 3
  /\ VersionPresent /\ Asn1Version = 2
  /\ Primary.thrown /\ ReturnedCert = Manual
  /\ ReturnedCert.cert[1].version = 3
  /\ Len(TbsOf) > 7

\* ---- _parseExtensions on its own, and the isCA flag derived from its records.
\* Most extensions in the sequence given to _parseExtensions.
MaxExts == 2

\* The extension records of the sequence, and isCA as extractCertificateInfo
\* derives it from a certificate that carries them.
CallParseExtensions ==
  /\ pc = "idle"
  /\ LET exts == ParseExtensions(asn1[1])
     IN record' = <<[ extensions |-> exts,
                      isCA |-> extractCertificateInfo(
                                 [subject |-> <<>>, issuer |-> <<>>, extensions |-> exts]).isCA ]>>
  /\ pc' = "done"
  /\ UNCHANGED <<appVars, infoVars, pemVars, nginxVars, fileVars, uiVars, asn1, lateVars>>

ExtInit ==
  /\ asn1 \in {<<Cons(16, es)>> : es \in BoundedSeq(ExtPool, MaxExts)}
  /\ record = <<>>
  /\ pc = "idle"
  /\ AppIdle
  /\ InfoIdle
  /\ PemIdle
  /\ NginxIdle
  /\ FileIdle
  /\ UiIdle
  /\ LateIdle

ExtNext == CallParseExtensions

SpecExt == ExtInit /\ [][ExtNext]_vars

\* The extensions given, and the parts of one of them found by their types.
Given == asn1[1].value

OctetOf(e) == e.value[CHOOSE k \in 1..Len(e.value) : e.value[k].type = 4]

MarkedCritical(e) ==
  \E k \in 1..Len(e.value) : e.value[k].type = 1 /\ e.value[k].content # <<0>>

\* The extension is a BasicConstraints whose value decodes to a SEQUENCE with a
\* first element that is a BOOLEAN with a nonzero byte.
AssertsCA(e) ==
  /\ e.value[1].content = <<2, 5, 29, 19>>
  /\ OctetOf(e).value # <<>>
  /\ OctetOf(e).value[1].value # <<>>
  /\ OctetOf(e).value[1].value[1].type = 1
  /\ OctetOf(e).value[1].value[1].content # <<0>>

MaxCallers == 3
\* Most invocations of init(...) followed.
MaxInits == 4

Callers == 1..MaxCallers

\* init(...) is invoked: wasmWrapper.js:30 and 37 (part_002:8 is the same
\* statement in ensureWasmInit); the caller then awaits its promise.
InvokeInit(c) ==
  /\ initCalls < MaxInits
  /\ initCalls' = initCalls + 1
  /\ lateInit' = (lateInit \/ initSucceeded)
  /\ caller' = [caller EXCEPT ![c] = "init"]
  /\ UNCHANGED <<wasmInitialized, initSucceeded>>

\* A call of initWasm runs up to its first await: it returns at once when
\* the flag is set (21); in Node it awaits readFile (29); in the browser it
\* invokes init (37). ensureWasmInit (part_002:6-11) is the browser branch.
CallInitWasm(c) ==
  /\ caller[c] = "idle"
  /\ IF wasmInitialized
     THEN /\ caller' = [caller EXCEPT ![c] = "returned"]
          /\ UNCHANGED <<wasmInitialized, initCalls, initSucceeded, lateInit>>
     ELSE IF wasmEnv = "node"
     THEN /\ caller' = [caller EXCEPT ![c] = "readFile"]
          /\ UNCHANGED <<wasmInitialized, initCalls, initSucceeded, lateInit>>
     ELSE InvokeInit(c)
  /\ UNCHANGED <<wasmEnv, appVars, infoVars, pemVars, nginxVars, fileVars, uiVars,
                 asn1Vars, joinVars, flowVars, taskVars, pc>>

\* await readFile(wasmPath) settles (29): with the buffer, and init is
\* invoked (30), or with an error, which is rethrown (31-34).
ReadFileSettles(c) ==
  /\ caller[c] = "readFile"
  /\ \/ InvokeInit(c)
     \/ /\ caller' = [caller EXCEPT ![c] = "thrown"]
        /\ UNCHANGED <<wasmInitialized, initCalls, initSucceeded, lateInit>>
  /\ UNCHANGED <<wasmEnv, appVars, infoVars, pemVars, nginxVars, fileVars, uiVars,
                 asn1Vars, joinVars, flowVars, taskVars, pc>>

\* await init(...) settles: on success the flag is set (39), on failure the
\* error leaves initWasm and the flag stays false.
InitSettles(c) ==
  /\ caller[c] = "init"
  /\ \/ /\ wasmInitialized' = TRUE
        /\ initSucceeded' = TRUE
        /\ caller' = [caller EXCEPT ![c] = "returned"]
     \/ /\ caller' = [caller EXCEPT ![c] = "thrown"]
        /\ UNCHANGED <<wasmInitialized, initSucceeded>>
  /\ UNCHANGED <<initCalls, lateInit, wasmEnv, appVars, infoVars, pemVars, nginxVars,
                 fileVars, uiVars, asn1Vars, joinVars, flowVars, taskVars, pc>>

\* The caller's parseCertificateFileWasm call is over; it may call again.
CallerDone(c) ==
  /\ caller[c] \in {"returned", "thrown"}
  /\ caller' = [caller EXCEPT ![c] = "idle"]
  /\ UNCHANGED <<wasmInitialized, initCalls, initSucceeded, lateInit, wasmEnv, appVars,
                 infoVars, pemVars, nginxVars, fileVars, uiVars, asn1Vars, joinVars,
                 flowVars, taskVars, pc>>

WasmInit ==
  /\ wasmInitialized = FALSE
  /\ initCalls = 0
  /\ initSucceeded = FALSE
  /\ lateInit = FALSE
  /\ wasmEnv \in {"node", "browser"}
  /\ caller = [c \in Callers |-> "idle"]
  /\ pc = "idle"
  /\ AppIdle
  /\ InfoIdle
  /\ PemIdle
  /\ NginxIdle
  /\ FileIdle
  /\ UiIdle
  /\ Asn1Idle
  /\ JoinIdle
  /\ FlowIdle
  /\ TaskIdle

WasmNext ==
  \E c \in Callers :
    \/ CallInitWasm(c)
    \/ ReadFileSettles(c)
    \/ InitSettles(c)
    \/ CallerDone(c)

SpecWasm == WasmInit /\ [][WasmNext]_vars

\* Invocations of init that are pending.
PendingInits == {c \in Callers : caller[c] = "init"}

\* C21: the underlying init function is invoked at most one time (an
\* invocation that failed is not counted), and never again after it has
\* succeeded.
C21_InitOnce ==
  /\ Cardinality(PendingInits) + (IF initSucceeded THEN 1 ELSE 0) <= 1
  /\ ~lateInit

\* ------------------------------------------------- inner joins (dataJoin.js)
\* Longest array given to a join.
MaxRows == 2

\* JavaScript values: a type and a printed value.
Val(t, v) == [t |-> t, v |-> v]

Undefined == Val("undefined", "")

IsNaN(a) == a.t = "number" /\ a.v = "NaN"

\* a != b, which converts the operands before it compares them.
NotStrictEqual_Loose(a, b) == a.v # b.v \/ IsNaN(a) \/ IsNaN(b)

\* a !== b (dataJoin.js:62).
NotStrictEqual(a, b) == a.t # b.t \/ a.v # b.v \/ IsNaN(a) \/ IsNaN(b)

\* a === b, as in the conditions the tests pass to innerJoinOn.
StrictEqual(a, b) == a.t = b.t /\ a.v = b.v /\ ~IsNaN(a) /\ ~IsNaN(b)

JoinReturns(rows) == [thrown |-> FALSE, rows |-> rows]

JoinThrows == [thrown |-> TRUE, rows |-> <<>>]

\* innerJoinOn: for (leftItem) for (rightItem) if (onCondition) push.  The
\* condition is given as a function of the pair <<leftItem, rightItem>>.
innerJoinOn(leftArray, rightArray, onCondition) ==
  LET RECURSIVE OnInner(_, _, _)
      OnInner(leftItem, j, result) ==
        IF j > Len(rightArray) THEN result
        ELSE OnInner(leftItem, j + 1,
                     IF onCondition[<<leftItem, rightArray[j]>>]
                     THEN Append(result, [left |-> leftItem, right |-> rightArray[j]])
                     ELSE result)
      RECURSIVE OnOuter(_, _)
      OnOuter(i, result) ==
        IF i > Len(leftArray) THEN result
        ELSE OnOuter(i + 1, OnInner(leftArray[i], 1, result))
  IN JoinReturns(OnOuter(1, <<>>))

\* for (const key of keys) if (leftItem[key] !== rightItem[key]) { match =
\* false; break }
RECURSIVE KeysMatch(_, _, _)
KeysMatch(leftItem, rightItem, keys) ==
  IF keys = <<>> THEN TRUE
  ELSE IF NotStrictEqual(leftItem[Head(keys)], rightItem[Head(keys)]) THEN FALSE
  ELSE KeysMatch(leftItem, rightItem, Tail(keys))

RECURSIVE UsingInner(_, _, _, _, _)
UsingInner(leftItem, rightArray, j, result, keys) ==
  IF j > Len(rightArray) THEN result
  ELSE UsingInner(leftItem, rightArray, j + 1,
                  IF KeysMatch(leftItem, rightArray[j], keys)
                  THEN Append(result, [left |-> leftItem, right |-> rightArray[j]])
                  ELSE result,
                  keys)

RECURSIVE UsingOuter(_, _, _, _, _)
UsingOuter(leftArray, rightArray, i, result, keys) ==
  IF i > Len(leftArray) THEN result
  ELSE UsingOuter(leftArray, rightArray, i + 1,
                  UsingInner(leftArray[i], rightArray, 1, result, keys), keys)

\* keys is given as [isString, names]: a string key has one name.
innerJoinUsing(leftArray, rightArray, keysGiven) ==
  LET keys == IF keysGiven.isString THEN <<keysGiven.names[1]>> ELSE keysGiven.names
  IN IF Len(keys) = 0
     THEN JoinThrows
     ELSE JoinReturns(UsingOuter(leftArray, rightArray, 1, <<>>, keys))

\* Rows with the properties id and name; a property an object lacks reads
\* as undefined.
ItemPool ==
  {[id |-> i, name |-> n] :
     i \in {Val("number", "1"), Val("string", "1"), Val("number", "NaN")},
     n \in {Val("number", "1"), Undefined}}

KeysPool ==
  {[isString |-> TRUE, names |-> <<"id">>], [isString |-> TRUE, names |-> <<"name">>],
   [isString |-> FALSE, names |-> <<>>], [isString |-> FALSE, names |-> <<"id">>],
   [isString |-> FALSE, names |-> <<"name">>],
   [isString |-> FALSE, names |-> <<"id", "name">>],
   [isString |-> FALSE, names |-> <<"name", "id">>]}

\* Both joins are called on the same arrays, innerJoinOn with the condition
\* (l, r) => l.k1 === r.k1 && ... over the listed keys (part_004:642).
CallJoins ==
  /\ pc = "idle"
  /\ pc' = "done"
  /\ LET a == joinArgs[1]
         cond == [p \in ItemPool \X ItemPool |->
                    \A k \in 1..Len(a.keys.names) :
                      StrictEqual(p[1][a.keys.names[k]], p[2][a.keys.names[k]])]
     IN joinResult' = <<[using |-> innerJoinUsing(a.left, a.right, a.keys),
                         on |-> innerJoinOn(a.left, a.right, cond)]>>
  /\ UNCHANGED <<joinArgs, appVars, infoVars, pemVars, nginxVars, fileVars, uiVars,
                 asn1Vars, wasmVars, flowVars, taskVars>>

JoinInit ==
  /\ joinArgs \in {<<[left |-> l, right |-> r, keys |-> k]>> :
                     l \in BoundedSeq(ItemPool, MaxRows),
                     r \in BoundedSeq(ItemPool, MaxRows), k \in KeysPool}
  /\ joinResult = <<>>
  /\ pc = "idle"
  /\ AppIdle
  /\ InfoIdle
  /\ PemIdle
  /\ NginxIdle
  /\ FileIdle
  /\ UiIdle
  /\ Asn1Idle
  /\ WasmIdle
  /\ FlowIdle
  /\ TaskIdle

JoinNext == CallJoins

SpecJoin == JoinInit /\ [][JoinNext]_vars

\* The arguments of the call and the names of the keys listed.
JoinLeft == joinArgs[1].left

JoinRight == joinArgs[1].right

KeyNames == joinArgs[1].keys.names

\* Two values are the same value of the same type (NaN equals nothing).
SameValue(a, b) == a = b /\ a # Val("number", "NaN")

\* The pair (i, j) of a left and a right index satisfies the condition.
PairMatches(i, j) ==
  \A k \in 1..Len(KeyNames) : SameValue(JoinLeft[i][KeyNames[k]], JoinRight[j][KeyNames[k]])

\* All index pairs in the order left index, then right index.
IndexPairs ==
  [k \in 1..(Len(JoinLeft) * Len(JoinRight)) |->
     <<((k - 1) \div Len(JoinRight)) + 1, ((k - 1) % Len(JoinRight)) + 1>>]

PairSelected(p) == PairMatches(p[1], p[2])

MatchingPairs == SelectSeq(IndexPairs, PairSelected)

ExpectedRows ==
  [k \in 1..Len(MatchingPairs) |->
     [left |-> JoinLeft[MatchingPairs[k][1]], right |-> JoinRight[MatchingPairs[k][2]]]]

\* C22: for a key name or a non-empty list of key names, innerJoinUsing
\* returns what innerJoinOn returns for strict equality of every listed
\* key: exactly the matching pairs {left, right}, once per pair, ordered by
\* left index and then right index; a string key is a one-element list.
C22_UsingRefinesOn ==
  (pc = "done" /\ KeyNames # <<>>) =>
    /\ ~joinResult[1].using.thrown
    /\ ~joinResult[1].on.thrown
    /\ joinResult[1].using.rows = joinResult[1].on.rows
    /\ joinResult[1].using.rows = ExpectedRows

\* Two left rows match the same right row on two keys, given as a list, and
\* another pair does not match.
C22_Witness ==
  /\ pc = "done"
  /\ Len(KeyNames) = 2
  /\ Len(joinResult[1].using.rows) >= 2
  /\ Len(joinResult[1].using.rows) < Len(JoinLeft) * Len(JoinRight)

\* ------------------------------- buildCertificateChain, one step at a time
\* The certificates walked step by step: every issued non-CA certificate
\* over the three names (cycles of two and three records among them), one
\* self-signed certificate and one CA certificate.
WalkPool ==
  {MkCert(p[1], p[2], FALSE) : p \in {q \in ChainNames \X ChainNames : q[1] # q[2]}}
    \cup {MkCert("a", "a", FALSE), MkCert("a", "b", TRUE)}

\* Mutant of visited.add: nothing is remembered.
AddVisited_Forget(visited, current) == visited

\* visited.add(current) (part_001:802).
AddVisited(visited, current) == visited \cup {current}

WalkUnchanged ==
  UNCHANGED <<certificates, privateKeys, error, exported, infoVars, pemVars, nginxVars,
              fileVars, uiVars, asn1Vars, wasmVars, joinVars, flowVars, tasks>>

\* part_001:777-793: the map is filled and the leaf candidates collected.
BuildStart ==
  /\ pc = "idle"
  /\ walk' = <<[leaves |-> LeavesFrom(certMapInfo(certificates), 1), k |-> 1,
                current |-> 0, visited |-> {}, chainForLeaf |-> <<>>]>>
  /\ chains' = <<>>
  /\ pc' = "forEach"
  /\ WalkUnchanged

\* part_001:796-800: the callback of leaves.forEach begins for the next leaf.
LeafStart ==
  /\ pc = "forEach"
  /\ walk[1].k <= Len(walk[1].leaves)
  /\ walk' = <<[walk[1] EXCEPT !.current = walk[1].leaves[walk[1].k],
                                !.visited = {}, !.chainForLeaf = <<>>]>>
  /\ pc' = "while"
  /\ UNCHANGED chains
  /\ WalkUnchanged

\* part_001:801-822: the test of the while loop and one pass of its body.
WhileStep ==
  /\ pc = "while"
  /\ Len(walk[1].chainForLeaf) <= Len(certificates)
  /\ LET w == walk[1]
         infos == certMapInfo(certificates)
     IN IF w.current # 0 /\ w.current \notin w.visited
        THEN LET v == AddVisited(w.visited, w.current)
                 ch == Append(w.chainForLeaf, w.current)
                 next == FindIssuer(infos, w.current, v)
             IN IF infos[w.current].isSelfSigned \/ next = 0
                THEN /\ walk' = <<[w EXCEPT !.visited = v, !.chainForLeaf = ch]>>
                     /\ pc' = "leafEnd"
                ELSE /\ walk' = <<[w EXCEPT !.visited = v, !.chainForLeaf = ch,
                                            !.current = next]>>
                     /\ pc' = "while"
        ELSE /\ walk' = walk
             /\ pc' = "leafEnd"
  /\ UNCHANGED chains
  /\ WalkUnchanged

\* part_001:824-826: the chain of the leaf is pushed when it is not empty.
LeafEnd ==
  /\ pc = "leafEnd"
  /\ chains' = IF Len(walk[1].chainForLeaf) > 0
               THEN Append(chains, walk[1].chainForLeaf) ELSE chains
  /\ walk' = <<[walk[1] EXCEPT !.k = @ + 1]>>
  /\ pc' = "forEach"
  /\ WalkUnchanged

\* part_001:827-829: forEach is over and the list of chains is returned.
BuildReturn ==
  /\ pc = "forEach"
  /\ walk[1].k > Len(walk[1].leaves)
  /\ pc' = "done"
  /\ UNCHANGED <<chains, walk>>
  /\ WalkUnchanged

WalkInit ==
  /\ certificates \in BoundedSeq({Wrapper(c) : c \in WalkPool}, MaxCerts)
  /\ privateKeys = <<>>
  /\ error = NoValue
  /\ chains = <<>>
  /\ exported = <<>>
  /\ walk = <<>>
  /\ tasks = <<>>
  /\ pc = "idle"
  /\ InfoIdle
  /\ PemIdle
  /\ NginxIdle
  /\ FileIdle
  /\ UiIdle
  /\ Asn1Idle
  /\ WasmIdle
  /\ JoinIdle
  /\ FlowIdle

WalkNext == BuildStart \/ LeafStart \/ WhileStep \/ LeafEnd \/ BuildReturn

\* The call runs to its end: JavaScript runs a synchronous function without
\* interruption.
SpecWalk == WalkInit /\ [][WalkNext]_vars /\ WF_vars(WalkNext)

NoRecordTwice(ch) == \A m, n \in 1..Len(ch) : ch[m] = ch[n] => m = n

\* C24: for every input of n records, cycles of common names with no
\* self-signed record included, buildCertificateChain returns; no record
\* appears twice within one chain and every chain has between 1 and n records.
C24_WalksTerminate ==
  /\ <>(pc = "done")
  /\ [](pc = "done" =>
         \A k \in 1..Len(chains) :
           /\ NoRecordTwice(chains[k])
           /\ Len(chains[k]) \in 1..Len(certificates))

\* Three records whose common names form a cycle, none self-signed: the
\* call has returned and a chain holds all three.
C24_Witness ==
  /\ pc = "done"
  /\ Len(certificates) = 3
  /\ \A i \in 1..3 : ~certMapInfo(certificates)[i].isSelfSigned
  /\ \E k \in 1..Len(chains) : Len(chains[k]) = 3

\* ------------------------------------- chains of certificates without a CN
\* Distinguished names with and without a CN attribute: a name, two DNs of
\* one OU attribute, a CN that is the text 'Unknown' and an empty CN.
SubjectDnPool ==
  {<<Attr("CN", "a")>>, <<Attr("OU", "x")>>, <<Attr("OU", "y")>>,
   <<Attr("CN", "Unknown")>>, <<Attr("CN", "")>>}

IssuerDnPool == {<<Attr("CN", "a")>>, <<Attr("OU", "x")>>, <<Attr("OU", "y")>>}

DnCertPool ==
  {[subject |-> sd, issuer |-> id, extensions |-> <<>>] :
     sd \in SubjectDnPool, id \in IssuerDnPool}

DnChainInit ==
  /\ certificates \in BoundedSeq({Wrapper(c) : c \in DnCertPool}, MaxCerts)
  /\ privateKeys = <<>>
  /\ error = NoValue
  /\ chains = <<>>
  /\ exported = <<>>
  /\ pc = "idle"
  /\ InfoIdle
  /\ PemIdle
  /\ RestIdle

DnChainNext == HandleDownloadChain

SpecDnChain == DnChainInit /\ [][DnChainNext]_vars

\* The DNs of record i, as given.
SubjectDn(i) == certificates[i].data.subject

IssuerDn(i) == certificates[i].data.issuer

HasCN(dn) == \E k \in 1..Len(dn) : dn[k].shortName = "CN"

\* The records of a chain before position m and at it.
WalkedUpTo(ch, m) == {ch[n] : n \in 1..m}

NoCNGivesUnknown ==
  \A i \in 1..NCerts :
    /\ ~HasCN(SubjectDn(i)) => Infos[i].subjectCommonName = "Unknown"
    /\ ~HasCN(IssuerDn(i)) => Infos[i].issuerCommonName = "Unknown"

\* C30: a DN without a CN attribute gets the common name
\* 'Unknown'; a record that is not self-signed and whose issuer has no CN is
\* linked to a record whenever an unvisited record's subject has no CN, and
\* the record it is linked to never has a CN in its subject.
C30_UnknownLinksOnlyNoCN ==
  pc = "done" =>
    /\ NoCNGivesUnknown
    /\ \A k \in 1..Len(chains) : \A m \in 1..Len(chains[k]) :
         LET ch == chains[k]
         IN (SubjectDn(ch[m]) # IssuerDn(ch[m]) /\ ~HasCN(IssuerDn(ch[m]))) =>
              /\ (\E j \in 1..NCerts : j \notin WalkedUpTo(ch, m) /\ ~HasCN(SubjectDn(j)))
                   => m < Len(ch)
              /\ m < Len(ch) => ~HasCN(SubjectDn(ch[m + 1]))

\* ------------------------------------- processFile calls that overlap (App)
\* Most handler invocations (drops and password submits) in flight or past.
MaxTasks == 2

TwoCertsAndKeyText ==
  OneCertText \o <<"LF">> \o BeginCertificate \o <<"LF", "MIIB", "LF", "MIIB", "LF">>
    \o EndCertificate \o <<"LF">> \o OneKeyText

\* The files dropped: a bundle of two certificates and a key, a single
\* certificate, a container with the password "a", and bytes that are none.
PairFile ==
  [name |-> "pair.pem", ext |-> "pem",
   content |-> [Blank EXCEPT !.kind = "pem", !.text = TwoCertsAndKeyText]]

CertFile ==
  [name |-> "cert.pem", ext |-> "pem",
   content |-> [Blank EXCEPT !.kind = "pem", !.text = OneCertText]]

LockedFile == [name |-> "a.pfx", ext |-> "pfx", content |-> OneBagContainer("a")]

JunkFile == [name |-> "junk.pfx", ext |-> "pfx", content |-> Blank]

ConcFiles == {PairFile, CertFile, LockedFile, JunkFile}

\* The file lists of the drops.
DropPool ==
  { <<PairFile>>, <<CertFile, PairFile>>, <<LockedFile, CertFile>>, <<JunkFile, CertFile>> }

\* Mutant of the list update: the list the handler's render saw, extended.
AppendUpdate_FromClosure(prev, seen, added) == seen \o added

\* setCertificates(prev => [...prev, ...certsWithInfo]) and the same for the
\* keys (App.jsx:39-43): the updater is given the latest list.
AppendUpdate(prev, seen, added) == prev \o added

TaskUnchanged ==
  UNCHANGED <<chains, exported, infoVars, pemVars, nginxVars, fileVars, asn1Vars,
              wasmVars, joinVars, flowVars, walk, reported, offered, pc>>

\* handleDrop / handleFilesDropped is invoked with a list of files: the
\* handler of the current render starts; its first processFile call has not
\* run yet.
StartDrop ==
  \E files \in DropPool :
    /\ Len(tasks) < MaxTasks
    /\ tasks' = Append(tasks, [kind |-> "drop", files |-> files, password |-> NoValue,
                               i |-> 1, at |-> "call",
                               seen |-> [certificates |-> certificates,
                                         privateKeys |-> privateKeys]])
    /\ UNCHANGED <<certificates, privateKeys, error, pendingFile, showPasswordModal>>
    /\ TaskUnchanged

\* handlePasswordSubmit is invoked from the modal with a password: it will
\* process the pendingFile of the render the modal belongs to.
StartSubmit ==
  \E pw \in {"a", "b"} :
    /\ showPasswordModal
    /\ pendingFile # <<>>
    /\ Len(tasks) < MaxTasks
    /\ tasks' = Append(tasks, [kind |-> "submit", files |-> <<pendingFile[1]>>,
                               password |-> pw, i |-> 1, at |-> "call",
                               seen |-> [certificates |-> certificates,
                                         privateKeys |-> privateKeys]])
    /\ UNCHANGED <<certificates, privateKeys, error, pendingFile, showPasswordModal>>
    /\ TaskUnchanged

\* processFile up to its await (App.jsx:22-24): the error is cleared and the
\* parse of the handler's current file is started.
ProcessFileCall(t) ==
  /\ tasks[t].at = "call"
  /\ error' = NoValue
  /\ tasks' = [tasks EXCEPT ![t].at = "await"]
  /\ UNCHANGED <<certificates, privateKeys, pendingFile, showPasswordModal>>
  /\ TaskUnchanged

\* The parse settles and processFile runs to its end (App.jsx:24-52); then
\* the handler goes on: the loop of handleFilesDropped takes the next file
\* (56-58), handlePasswordSubmit closes the modal (64-66).
ProcessFileSettle(t) ==
  /\ tasks[t].at = "await"
  /\ LET task == tasks[t]
         f == task.files[task.i]
         result == parseCertificateFile(f, task.password)
         loaded == result.settled = "resolved" /\ ~result.needsPassword
         asks == result.settled = "resolved" /\ result.needsPassword
     IN /\ certificates' =
             IF loaded
             THEN AppendUpdate(certificates, task.seen.certificates,
                               WithFileName(result.certificates, f.name))
             ELSE certificates
        /\ privateKeys' =
             IF loaded
             THEN AppendUpdate(privateKeys, task.seen.privateKeys,
                               WithFileName(result.privateKeys, f.name))
             ELSE privateKeys
        /\ error' = IF result.settled = "rejected" THEN "Failed to process file" ELSE error
        /\ pendingFile' = IF task.kind = "submit" THEN <<>>
                          ELSE IF asks THEN <<f>> ELSE pendingFile
        /\ showPasswordModal' = IF task.kind = "submit" THEN FALSE
                                ELSE IF asks THEN TRUE ELSE showPasswordModal
        /\ tasks' = [tasks EXCEPT ![t].i = @ + 1,
                                  ![t].at = IF task.i < Len(task.files) THEN "call" ELSE "end"]
  /\ TaskUnchanged

\* The Cancel button of the modal.
CancelPrompt ==
  /\ showPasswordModal
  /\ pendingFile' = <<>>
  /\ showPasswordModal' = FALSE
  /\ UNCHANGED <<certificates, privateKeys, error, tasks>>
  /\ TaskUnchanged

TaskInit ==
  /\ AppIdle
  /\ UiIdle
  /\ tasks = <<>>
  /\ walk = <<>>
  /\ pc = "idle"
  /\ InfoIdle
  /\ PemIdle
  /\ NginxIdle
  /\ FileIdle
  /\ Asn1Idle
  /\ WasmIdle
  /\ JoinIdle
  /\ nodes = useNodesState(<<>>, initialNodes(<<>>, <<>>), FALSE)

TaskNext ==
  \/ StartDrop
  \/ StartSubmit
  \/ CancelPrompt
  \/ \E t \in 1..Len(tasks) : ProcessFileCall(t)
  \/ \E t \in 1..Len(tasks) : ProcessFileSettle(t)

SpecTasks == TaskInit /\ [][TaskNext]_vars

\* The processFile calls that have returned after a successful parse of the
\* file of this name: pairs of a handler and a position in its file list.
LoadsOf(name) ==
  {tk \in (1..Len(tasks)) \X (1..MaxDrop) :
     /\ tk[2] < tasks[tk[1]].i
     /\ tasks[tk[1]].files[tk[2]].name = name
     /\ LET r == parseCertificateFile(tasks[tk[1]].files[tk[2]], tasks[tk[1]].password)
        IN r.settled = "resolved" /\ ~r.needsPassword}

\* The PEM texts of the records of a list that carry this file name.
PemsTagged(list, name) ==
  LET tagged(rec) == rec.fileName = name
      recs == SelectSeq(list, tagged)
  IN [k \in 1..Len(recs) |-> recs[k].pem]

PemsOf(recs) == [k \in 1..Len(recs) |-> recs[k].pem]

RECURSIVE Repeated(_, _)
Repeated(s, n) == IF n = 0 THEN <<>> ELSE s \o Repeated(s, n - 1)

\* What the file holds, read with the password that opens it.
HeldBy(f) == parseCertificateFile(f, f.content.pass)

\* C29: under every interleaving of processFile calls, the records of every
\* successfully parsed file are in the App's lists once per load, tagged
\* with the file's name and in the file's order; nothing is lost or
\* overwritten, and no record carries another name.
C29_NoLostUpdate ==
  /\ \A f \in ConcFiles :
       /\ PemsTagged(certificates, f.name)
            = Repeated(PemsOf(HeldBy(f).certificates), Cardinality(LoadsOf(f.name)))
       /\ PemsTagged(privateKeys, f.name)
            = Repeated(PemsOf(HeldBy(f).privateKeys), Cardinality(LoadsOf(f.name)))
  /\ \A k \in 1..Len(certificates) : \E f \in ConcFiles : certificates[k].fileName = f.name
  /\ \A k \in 1..Len(privateKeys) : \E f \in ConcFiles : privateKeys[k].fileName = f.name

\* Two handlers overlapped and both have loaded a file: the second handler
\* started before the first had loaded anything, and both are past a load.
C29_Witness ==
  /\ Len(tasks) = 2
  /\ tasks[2].seen.certificates = <<>>
  /\ \E n \in {f.name : f \in ConcFiles} :
       \E tk \in LoadsOf(n) : tk[1] = 1
  /\ \E n \in {f.name : f \in ConcFiles} :
       \E tk \in LoadsOf(n) : tk[1] = 2
  /\ Len(certificates) >= 3
  /\ certificates[1].fileName # certificates[Len(certificates)].fileName
====
